---- MODULE Spec2Model ----
(***************************************************************************)
(* Model of the vero agent framework: the three reasoning loops            *)
(* (SimpleAgent, ReActAgent, OpenAIFunctionAgent) over the shared Agent    *)
(* base class, with the text protocols each loop parses.                   *)
(*                                                                         *)
(* Text is a sequence of tokens (strings); the regular expressions and the *)
(* JSON / Python-literal parsers of the source are operators over token    *)
(* sequences.  The chat client and the tool callables are the environment: *)
(* each model call draws a reply (or a failure) from a finite set, each    *)
(* tool invocation either returns or raises.                               *)
(***************************************************************************)
EXTENDS Integers, Sequences, FiniteSets, TLC

\* ------------------------------------------------------------------
\* Bounds of the model
\* ------------------------------------------------------------------
\* largest max_turns an agent is constructed with
MaxTurnsBound == 2
\* number of run() calls made on one agent
MaxRuns == 1
\* number of add_message calls made on one agent from outside run()
MaxAdded == 1

\* ------------------------------------------------------------------
\* Tokens
\* ------------------------------------------------------------------
NL == "\n"
SP == " "
WordTok == {"add", "nosuch", "Finish", "finish", "hello", "thanks"}
\* "key": value pairs accepted by json.loads and by ast.literal_eval
PairBoth == {"\"a\": 2", "\"b\": 3", "\"answer\": \"X\""}
\* pairs only json.loads accepts (true is not a Python literal)
PairJsonOnly == {"\"a\": true"}
\* pairs only ast.literal_eval accepts (single-quoted key)
PairPyOnly == {"'a': 2"}
\* scalars accepted by both parsers, by JSON only, by Python only
ScalarBoth == {"5"}
ScalarJsonOnly == {"null"}
ScalarPyOnly == {"None"}

PairKey(p) ==
    CASE p \in {"\"a\": 2", "\"a\": true", "'a': 2"} -> "a"
      [] p = "\"b\": 3" -> "b"
      [] p = "\"answer\": \"X\"" -> "answer"
      [] OTHER -> "?"

PairVal(p) ==
    CASE p \in {"\"a\": 2", "'a': 2"} -> "2"
      [] p = "\"a\": true" -> "True"
      [] p = "\"b\": 3" -> "3"
      [] p = "\"answer\": \"X\"" -> "X"
      [] OTHER -> "?"

MinOf(S) == CHOOSE i \in S : \A j \in S : i <= j
MaxOf(S) == CHOOSE i \in S : \A j \in S : j <= i

IsSpaceTok(t) == t \in {SP, NL}

\* str.strip()
Strip(s) ==
    LET idx == {i \in 1..Len(s) : ~IsSpaceTok(s[i])}
    IN  IF idx = {} THEN <<>> ELSE SubSeq(s, MinOf(idx), MaxOf(idx))

\* index of the last token of the line that position i lies on
LineEnd(s, i) ==
    LET nls == {k \in i..Len(s) : s[k] = NL}
    IN  IF nls = {} THEN Len(s) ELSE MinOf(nls) - 1

\* position i is the start of a line (the ^ anchor under re.MULTILINE)
AtLineStart(s, i) == i = 1 \/ s[i-1] = NL

\* ------------------------------------------------------------------
\* Parsed values: a Python object is [ty, kv]; a dict carries its
\* key/value pairs, the last pair of a repeated key winning
\* ------------------------------------------------------------------
NoneVal == [ty |-> "none", kv |-> {}]
ListVal == [ty |-> "list", kv |-> {}]
ScalarVal(t) == [ty |-> "scalar", kv |-> {<<"", t>>}]
EmptyDict == [ty |-> "dict", kv |-> {}]

DictOf(pairs) ==
    [ty |-> "dict",
     kv |-> {<<PairKey(pairs[i]), PairVal(pairs[i])>> : i \in
               {i \in 1..Len(pairs) :
                  \A j \in (i+1)..Len(pairs) : PairKey(pairs[j]) # PairKey(pairs[i])}}]

DictKeys(d) == {p[1] : p \in d.kv}
DictHas(d, k) == k \in DictKeys(d)
DictGet(d, k) == (CHOOSE p \in d.kv : p[1] = k)[2]

\* the grammar shared by json.loads and ast.literal_eval, over the pair and
\* scalar tokens the parser accepts; whitespace between tokens is skipped
ParseValue(s, Pairs, Scalars) ==
    LET t == SelectSeq(s, LAMBDA x : ~IsSpaceTok(x))
        n == Len(t)
        inner == SubSeq(t, 2, n - 1)
        m == n - 2
        isPairs == /\ m % 2 = 1
                   /\ \A i \in 1..m : IF i % 2 = 1 THEN inner[i] \in Pairs
                                                   ELSE inner[i] = ","
        isItems == /\ m % 2 = 1
                   /\ \A i \in 1..m : IF i % 2 = 1 THEN inner[i] \in Scalars
                                                   ELSE inner[i] = ","
    IN  IF n >= 2 /\ t[1] = "{" /\ t[n] = "}" /\ (m = 0 \/ isPairs)
        THEN [ok |-> TRUE,
              val |-> DictOf(SelectSeq(inner, LAMBDA x : x # ","))]
        ELSE IF n >= 2 /\ t[1] = "[" /\ t[n] = "]" /\ (m = 0 \/ isItems)
        THEN [ok |-> TRUE, val |-> ListVal]
        ELSE IF n = 1 /\ t[1] \in Scalars
        THEN [ok |-> TRUE, val |-> ScalarVal(t[1])]
        ELSE [ok |-> FALSE, val |-> NoneVal]

JsonLoads(s) == ParseValue(s, PairBoth \cup PairJsonOnly, ScalarBoth \cup ScalarJsonOnly)
LiteralEval(s) == ParseValue(s, PairBoth \cup PairPyOnly, ScalarBoth \cup ScalarPyOnly)

\* json.dumps of a parsed dict: the pairs in canonical double-quoted form
RECURSIVE DumpPairs(_)
DumpPairs(S) ==
    IF S = {} THEN <<>>
    ELSE LET p == CHOOSE q \in S : TRUE
         IN  <<p[1], ":", p[2]>> \o (IF S \ {p} = {} THEN <<>> ELSE <<",">>)
             \o DumpPairs(S \ {p})

JsonDumps(d) == <<"{">> \o DumpPairs(d.kv) \o <<"}">>

\* ------------------------------------------------------------------
\* Messages (vero/core/message.py)
\* ------------------------------------------------------------------
\* content=None of an assistant message that only carries tool calls
NoneContent == <<"<None>">>

Msg(role, content, tool_call_id, tool_calls) ==
    [role |-> role, content |-> content,
     tool_call_id |-> tool_call_id, tool_calls |-> tool_calls]

UserMsg(content) == Msg("user", content, "", <<>>)
SystemMsg(content) == Msg("system", content, "", <<>>)
AssistantMsg(content, tool_calls) == Msg("assistant", content, "", tool_calls)
ToolMsg(content, tool_call_id) == Msg("tool", content, tool_call_id, <<>>)

\* `msg.content or ""`
ContentOrEmpty(c) == IF c = NoneContent THEN <<>> ELSE c

\* ------------------------------------------------------------------
\* Tools (vero/tool/tool.py) and the Agent base class (vero/core/agent.py)
\* ------------------------------------------------------------------
\* the registered tools, in registration order: add(x, y), registered first,
\* and add(a, b=...), registered under the same name after it
RegisteredTools ==
    <<[name |-> "add", required |-> {"x", "y"}, optional |-> {},
       arguments |-> <<"x: int", "y: int">>,
       description |-> <<"Add two numbers (old)">>],
      [name |-> "add", required |-> {"a"}, optional |-> {"b"},
       arguments |-> <<"a: int", "b: int">>,
       description |-> <<"Add numbers">>]>>

\* variant: the first registration of a name is kept
ToolByNamesFirstWins(ts) ==
    [n \in {ts[i].name : i \in 1..Len(ts)} |->
        ts[MinOf({i \in 1..Len(ts) : ts[i].name = n})]]

\* Agent.tool_by_names: {tool.name: tool for tool in self.tools}, a later
\* tool replacing an earlier one of the same name
ToolByNames(ts) ==
    [n \in {ts[i].name : i \in 1..Len(ts)} |->
        ts[MaxOf({i \in 1..Len(ts) : ts[i].name = n})]]

\* the lookup of the agents
ToolNames == {RegisteredTools[i].name : i \in 1..Len(RegisteredTools)}
ToolByName(n) == ToolByNames(RegisteredTools)[n]

\* ", ".join of the arguments of a tool
RECURSIVE ArgsText(_, _)
ArgsText(arguments, i) ==
    IF i > Len(arguments) THEN <<>>
    ELSE <<arguments[i]>> \o (IF i < Len(arguments) THEN <<", ">> ELSE <<>>)
         \o ArgsText(arguments, i + 1)

\* tool_descriptions, line 88: "name(args) - description"
ToolLine(t) == <<t.name, "(">> \o ArgsText(t.arguments, 1) \o <<")", " - ">> \o t.description

\* variant: the lines are joined in reverse order
RECURSIVE ToolLinesOfReversed(_, _)
ToolLinesOfReversed(ts, i) ==
    IF i > Len(ts) THEN <<>>
    ELSE ToolLinesOfReversed(ts, i + 1)
         \o (IF i < Len(ts) THEN <<NL>> ELSE <<>>) \o ToolLine(ts[i])

\* Agent.tool_descriptions: the lines of the tools i.. joined by newlines
RECURSIVE ToolLinesOf(_, _)
ToolLinesOf(ts, i) ==
    IF i > Len(ts) THEN <<>>
    ELSE ToolLine(ts[i]) \o (IF i < Len(ts) THEN <<NL>> ELSE <<>>)
         \o ToolLinesOf(ts, i + 1)

ToolLines(i) == ToolLinesOf(RegisteredTools, i)

ToolDescriptions == ToolLines(1)

\* Tool.__call__: func(**kwargs).  The call raises TypeError when kwargs is
\* not a mapping or does not bind to the signature; otherwise the callable
\* itself returns or raises (envRaises).
ToolResult(t, args) == IF DictHas(args, "b") THEN <<"5">> ELSE <<"2">>

InvokeTool(t, args, envRaises) ==
    IF args.ty # "dict" \/ ~(t.required \subseteq DictKeys(args))
                        \/ ~(DictKeys(args) \subseteq t.required \cup t.optional)
    THEN [raised |-> TRUE, out |-> <<"TypeError">>]
    ELSE IF envRaises
    THEN [raised |-> TRUE, out |-> <<"boom">>]
    ELSE [raised |-> FALSE, out |-> ToolResult(t, args)]

\* ------------------------------------------------------------------
\* State
\* ------------------------------------------------------------------
VARIABLES
    kind,          \* which Agent subclass the object is
    max_turns,     \* Agent.max_turns
    history,       \* Agent._history
    added,         \* number of add_message calls made from outside run()
    runs,          \* number of run() calls started on the agent
    entry_len,     \* length of history when the current run() was entered
    status,        \* "idle" | "running" | "returned" | "raised"
    pc,            \* position inside the running run()
    result,        \* value run() returned
    error,         \* exception run() raised
    llmCalls,      \* llm.generate calls made by the current run
    toolLog,       \* tool invocations made by the current run, in order
    assistant_msg, \* local: the last reply of the model
    tool_name,     \* local of SimpleAgent.run
    params,        \* local of SimpleAgent.run
    turn_idx,      \* loop variable of ReActAgent.run / OpenAIFunctionAgent.run
    scratchpad,    \* local of ReActAgent.run
    action,        \* local of ReActAgent.run
    action_input,  \* local of ReActAgent.run
    observation,   \* local of ReActAgent.run
    tcIdx,         \* position in the `for tc in assistant_msg.tool_calls` loop
    tool,          \* a Tool object the library functions are applied to
    schema,        \* what Tool.to_openai_schema returned for it
    response,      \* what the provider does with a chat.completions.create call
    generated,     \* what ChatOpenAI.generate returned
    fragments,     \* the fragments a consumer got from the returned iterator
    chat_error,    \* the exception the caller of the chat client saw
    message,       \* a Message object
    d,             \* what Message.to_dict returned for it
    tools,         \* Agent.tools of an agent whose tool helpers are read
    by_names,      \* what Agent.tool_by_names returned
    descriptions   \* what Agent.tool_descriptions returned

vars == <<kind, max_turns, history, added, runs, entry_len, status, pc, result, error, llmCalls,
          toolLog, assistant_msg, tool_name, params, turn_idx, scratchpad,
          action, action_input, observation, tcIdx, tool, schema, response,
          generated, fragments, chat_error, message, d, tools, by_names,
          descriptions>>

\* the state of the agent object and of its run()
agentVars == <<kind, max_turns, history, added, runs, entry_len, status, pc, result,
               error, llmCalls, toolLog, assistant_msg, tool_name, params, turn_idx,
               scratchpad, action, action_input, observation, tcIdx>>

\* the objects of the library that are exercised on their own
toolVars == <<tool, schema>>
chatVars == <<response, generated, fragments, chat_error>>
messageVars == <<message, d>>
registryVars == <<tools, by_names, descriptions>>
libVars == <<toolVars, chatVars, messageVars, registryVars>>

simpleLocals == <<tool_name, params>>
reactLocals == <<scratchpad, action, action_input, observation>>

Kinds == {"simple", "react", "function"}
UserInputs == {<<"q">>}

\* a local name that has not been assigned yet
Unbound == <<"<unbound>">>
UnboundVal == [ty |-> "unbound", kv |-> {}]
NoMsg == Msg("none", <<>>, "", <<>>)
NoResult == <<"<no result>">>

\* SimpleAgent._build_system_prompt / OpenAIFunctionAgent._build_system_prompt
SimpleSystemPrompt ==
    IF Len(RegisteredTools) = 0 THEN <<"DEFAULT_PROMPT_WITHOUT_TOOLS">>
    ELSE <<"DEFAULT_PROMPT_WITH_TOOLS", NL>> \o ToolDescriptions
FunctionSystemPrompt == <<"You are an intelligent agent">>

\* the history each constructor leaves behind
InitialHistory(k) ==
    CASE k = "simple" -> <<SystemMsg(SimpleSystemPrompt)>>
      [] k = "function" -> <<SystemMsg(FunctionSystemPrompt)>>
      [] k = "react" -> <<>>

\* no object yet
NoObject == [none |-> TRUE]

\* the library objects while an agent is exercised
NoTool == tool = NoObject /\ schema = NoObject
NoChat ==
    /\ response = NoObject /\ generated = NoObject
    /\ fragments = <<>> /\ chat_error = "none"
NoMessage == message = NoObject /\ d = NoObject
NoRegistry == tools = <<>> /\ by_names = NoObject /\ descriptions = NoObject

InitLib == NoTool /\ NoChat /\ NoMessage /\ NoRegistry

\* the agent after construction
InitAgent ==
    /\ kind \in Kinds
    /\ max_turns \in 1..MaxTurnsBound
    /\ history = InitialHistory(kind)
    /\ added = 0
    /\ runs = 0
    /\ entry_len = 0
    /\ status = "idle"
    /\ pc = "none"
    /\ result = NoResult
    /\ error = "none"
    /\ llmCalls = 0
    /\ toolLog = <<>>
    /\ assistant_msg = NoMsg
    /\ tool_name = Unbound
    /\ params = UnboundVal
    /\ turn_idx = 0
    /\ scratchpad = <<>>
    /\ action = Unbound
    /\ action_input = UnboundVal
    /\ observation = Unbound
    /\ tcIdx = 0

Init == InitAgent /\ InitLib

\* run() is entered: fresh locals, fresh per-run counters
EnterRunWithin(k, limit) ==
    /\ kind = k
    /\ status # "running"
    /\ runs < limit
    /\ runs' = runs + 1
    /\ entry_len' = Len(history)
    /\ status' = "running"
    /\ result' = NoResult
    /\ error' = "none"
    /\ llmCalls' = 0
    /\ toolLog' = <<>>
    /\ assistant_msg' = NoMsg
    /\ tool_name' = Unbound
    /\ params' = UnboundVal
    /\ scratchpad' = <<>>
    /\ action' = Unbound
    /\ action_input' = UnboundVal
    /\ observation' = Unbound
    /\ tcIdx' = 0
    /\ UNCHANGED <<libVars, kind, max_turns, added>>

\* the entry of a run of an agent on which run() is called MaxRuns times
EnterRun(k) == EnterRunWithin(k, MaxRuns)

\* variant: run() starts from a history that holds the new message only
StartRunFresh(k, u, limit) ==
    /\ EnterRunWithin(k, limit)
    /\ history' = <<UserMsg(u)>>
    /\ turn_idx' = IF k = "simple" THEN 0 ELSE 1
    /\ pc' = IF k = "simple" THEN "llm1" ELSE "turn"

\* the first statements of run(user_input) of the three agents: the user
\* message is appended (SimpleAgent goes to its model call, the other two
\* enter their loop at turn 1)
StartRun(k, u, limit) ==
    /\ EnterRunWithin(k, limit)
    /\ history' = Append(history, UserMsg(u))
    /\ turn_idx' = IF k = "simple" THEN 0 ELSE 1
    /\ pc' = IF k = "simple" THEN "llm1" ELSE "turn"

\* variant: the return statement is reached and the run does not end
ReturnNever(v) == status' = "running" /\ result' = v /\ error' = "none" /\ pc' = "none"

\* run() returns v / raises e
Return(v) == status' = "returned" /\ result' = v /\ error' = "none" /\ pc' = "none"
Raise(e) == status' = "raised" /\ result' = NoResult /\ error' = e /\ pc' = "none"

\* between two calls of run() nothing of the last run is left but the history
BetweenRuns ==
    /\ status' = "idle"
    /\ pc' = "none"
    /\ result' = NoResult
    /\ error' = "none"
    /\ llmCalls' = 0
    /\ toolLog' = <<>>
    /\ assistant_msg' = NoMsg
    /\ tool_name' = Unbound
    /\ params' = UnboundVal
    /\ turn_idx' = 0
    /\ scratchpad' = <<>>
    /\ action' = Unbound
    /\ action_input' = UnboundVal
    /\ observation' = Unbound
    /\ tcIdx' = 0
    /\ entry_len' = Len(history')

\* messages a caller passes to add_message
AddableMessages == {UserMsg(<<"note">>), SystemMsg(<<"rules">>)}

\* Agent.add_message called by the user of the agent, outside run()
AddMessage(m) ==
    /\ status # "running"
    /\ added < MaxAdded
    /\ added' = added + 1
    /\ history' = Append(history, m)
    /\ BetweenRuns
    /\ UNCHANGED <<libVars, kind, max_turns, runs>>

\* variant: the first message is kept
ClearHistoryKeepFirst ==
    /\ status # "running"
    /\ history' = SubSeq(history, 1, 1)
    /\ BetweenRuns
    /\ UNCHANGED <<libVars, kind, max_turns, added, runs>>

\* Agent.clear_history
ClearHistory ==
    /\ status # "running"
    /\ history' = <<>>
    /\ BetweenRuns
    /\ UNCHANGED <<libVars, kind, max_turns, added, runs>>

NextAgent ==
    \/ \E m \in AddableMessages : AddMessage(m)
    \/ ClearHistory

\* a name is that of a registered tool (`name in self.tool_by_names`)
IsRegistered(n) == Len(n) = 1 /\ n[1] \in ToolNames
ToolOf(n) == ToolByName(n[1])

\* ------------------------------------------------------------------
\* SimpleAgent (vero/agents/simple_agent.py)
\* ------------------------------------------------------------------
TagTok == "TOOL_CALL:"

\* positions where TOOL_CALL_PATTERN  TOOL_CALL:(\w+):(.+)  matches
ToolCallMatches(text) ==
    {i \in 1..(Len(text) - 3) :
        /\ text[i] = TagTok
        /\ text[i+1] \in WordTok
        /\ text[i+2] = ":"
        /\ text[i+3] # NL}

\* variant: the pattern is searched with re.DOTALL, so the payload runs to the
\* end of the text instead of the end of the line
ParseToolCallDotAll(text) ==
    LET m == ToolCallMatches(text)
    IN  IF m = {}
        THEN [has_call |-> FALSE, tool_name |-> Unbound, params |-> NoneVal]
        ELSE LET i == MinOf(m)
                 params_str == Strip(SubSeq(text, i + 3, Len(text)))
                 j == JsonLoads(params_str)
                 l == LiteralEval(params_str)
             IN  [has_call |-> TRUE,
                  tool_name |-> <<text[i+1]>>,
                  params |-> IF j.ok THEN j.val
                             ELSE IF l.ok THEN l.val ELSE NoneVal]

\* variant: without the early return for a text that holds no tag
ParseToolCallNoEarlyReturn(text) ==
    LET m == ToolCallMatches(text)
    IN  IF m = {}
        THEN [has_call |-> TRUE, tool_name |-> Unbound, params |-> NoneVal]
        ELSE LET i == MinOf(m)
                 params_str == Strip(SubSeq(text, i + 3, LineEnd(text, i + 3)))
                 j == JsonLoads(params_str)
                 l == LiteralEval(params_str)
             IN  [has_call |-> TRUE,
                  tool_name |-> <<text[i+1]>>,
                  params |-> IF j.ok THEN j.val
                             ELSE IF l.ok THEN l.val ELSE NoneVal]

\* SimpleAgent._parse_tool_call: (has_call, tool_name, params)
ParseToolCall(text) ==
    LET m == ToolCallMatches(text)
    IN  IF m = {}
        THEN [has_call |-> FALSE, tool_name |-> Unbound, params |-> NoneVal]
        ELSE LET i == MinOf(m)
                 params_str == Strip(SubSeq(text, i + 3, LineEnd(text, i + 3)))
                 j == JsonLoads(params_str)
                 l == LiteralEval(params_str)
             IN  [has_call |-> TRUE,
                  tool_name |-> <<text[i+1]>>,
                  params |-> IF j.ok THEN j.val
                             ELSE IF l.ok THEN l.val ELSE NoneVal]

\* variant: the parameter check is made before the lookup
SimpleToolCheckParamsFirst(name, p) ==
    IF p.ty # "dict" THEN "ToolCallError"
    ELSE IF ~IsRegistered(name) THEN "ToolNotFoundError"
    ELSE "invoke"

\* variant: the parameters are passed on without the isinstance check
SimpleToolCheckNoTypeCheck(name, p) ==
    IF ~IsRegistered(name) THEN "ToolNotFoundError" ELSE "invoke"

\* the checks SimpleAgent._handle_tool_call makes before it invokes the tool
SimpleToolCheck(name, p) ==
    IF ~IsRegistered(name) THEN "ToolNotFoundError"
    ELSE IF p.ty # "dict" THEN "ToolCallError"
    ELSE "invoke"

\* variant: a failed invocation is fed back to the model like a result
SimpleToolOutcomeSwallowed(inv) == "TOOL_RESULT"

\* what SimpleAgent._handle_tool_call does with the outcome of the invocation
SimpleToolOutcome(inv) == IF inv.raised THEN "ToolCallError" ELSE "TOOL_RESULT"

\* replies of the model to a SimpleAgent
SimpleReplies ==
    { <<"hello">>,
      NoneContent,
      <<TagTok, "add", ":", "{", "\"a\": 2", "}">>,
      <<"hello", NL, TagTok, "add", ":", SP, "{", "\"a\": 2", ",", "\"b\": 3", "}", NL, "thanks">>,
      <<TagTok, "add", ":", "{", "'a': 2", "}">>,
      <<TagTok, "add", ":", "{", "\"b\": 3", "}">>,
      <<TagTok, "add", ":", "{", "\"a\": 2", "}", SP, "thanks">>,
      <<TagTok, "add", ":", "5">>,
      <<TagTok, "add", ":", "hello">>,
      <<TagTok, "nosuch", ":", "{", "\"a\": 2", "}">>,
      <<TagTok, "nosuch", ":", "hello">> }

\* run(), lines 151: the user message is appended
SimpleRun(u) ==
    /\ EnterRun("simple")
    /\ history' = Append(history, UserMsg(u))
    /\ pc' = "llm1"
    /\ turn_idx' = 0

\* run(), lines 154-170, and _handle_tool_call up to the invocation: the
\* first model call, the parse and the dispatch
SimpleFirstReply(c, llmFails) ==
    /\ kind = "simple" /\ status = "running" /\ pc = "llm1"
    /\ llmCalls' = llmCalls + 1
    /\ IF llmFails
       THEN /\ Raise("LLMCallError")
            /\ UNCHANGED <<history, assistant_msg, tool_name, params>>
       ELSE LET content == ContentOrEmpty(c)
                parsed == ParseToolCall(content)
                check == SimpleToolCheck(parsed.tool_name, parsed.params)
            IN  /\ assistant_msg' = AssistantMsg(c, <<>>)
                /\ history' = Append(history, AssistantMsg(c, <<>>))
                /\ tool_name' = parsed.tool_name
                /\ params' = parsed.params
                /\ IF ~parsed.has_call THEN Return(content)
                   ELSE IF check = "invoke"
                   THEN pc' = "tool" /\ UNCHANGED <<status, result, error>>
                   ELSE Raise(check)
    /\ UNCHANGED <<libVars, kind, max_turns, added, runs, entry_len, toolLog, turn_idx, tcIdx, reactLocals>>

\* variant: the result is recorded as a tool-role message
SimpleToolResultAsToolMessage(out) == ToolMsg(<<"TOOL_RESULT:">> \o out, "")

\* _handle_tool_call, line 220: Message.user(f"TOOL_RESULT:{result}")
SimpleToolResultMessage(out) == UserMsg(<<"TOOL_RESULT:">> \o out)

\* _handle_tool_call, lines 202-220: the invocation and its result
SimpleInvokeTool(envRaises) ==
    /\ kind = "simple" /\ status = "running" /\ pc = "tool"
    /\ LET inv == InvokeTool(ToolOf(tool_name), params, envRaises)
       IN  /\ toolLog' = Append(toolLog, [name |-> tool_name, args |-> params,
                                          raised |-> inv.raised])
           /\ IF SimpleToolOutcome(inv) = "ToolCallError"
              THEN Raise("ToolCallError") /\ UNCHANGED history
              ELSE /\ history' = Append(history, SimpleToolResultMessage(inv.out))
                   /\ pc' = "llm2"
                   /\ UNCHANGED <<status, result, error>>
    /\ UNCHANGED <<libVars, kind, max_turns, added, runs, entry_len, llmCalls, assistant_msg, turn_idx,
                   tcIdx, simpleLocals, reactLocals>>

\* variant: the follow-up reply is searched for a tag like the first one
SimpleFinalStepReparse(text) ==
    IF ParseToolCall(text).has_call THEN "tool" ELSE "return"

\* what _handle_tool_call does with the follow-up reply (lines 224-226): it is
\* the final answer whatever it contains
SimpleFinalStep(text) == "return"

\* _handle_tool_call, lines 223-226: the follow-up model call
SimpleFinalReply(c, llmFails) ==
    /\ kind = "simple" /\ status = "running" /\ pc = "llm2"
    /\ llmCalls' = llmCalls + 1
    /\ IF llmFails
       THEN Raise("LLMCallError") /\ UNCHANGED <<history, assistant_msg>>
       ELSE /\ assistant_msg' = AssistantMsg(c, <<>>)
            /\ history' = Append(history, AssistantMsg(c, <<>>))
            /\ IF SimpleFinalStep(ContentOrEmpty(c)) = "return"
               THEN Return(ContentOrEmpty(c))
               ELSE pc' = "tool" /\ UNCHANGED <<status, result, error>>
    /\ UNCHANGED <<libVars, kind, max_turns, added, runs, entry_len, toolLog, turn_idx, tcIdx,
                   simpleLocals, reactLocals>>

\* the statements of SimpleAgent.run behind its entry
StepsSimple ==
    \/ \E c \in SimpleReplies, f \in BOOLEAN : SimpleFirstReply(c, f)
    \/ \E e \in BOOLEAN : SimpleInvokeTool(e)
    \/ \E c \in SimpleReplies, f \in BOOLEAN : SimpleFinalReply(c, f)

NextSimple ==
    \/ \E u \in UserInputs : SimpleRun(u)
    \/ StepsSimple

\* ------------------------------------------------------------------
\* ReActAgent (vero/agents/react_agent.py)
\* ------------------------------------------------------------------
ThoughtTok == "Thought:"
ActionTok == "Action:"
InputTok == "Action Input:"

\* the first token after position i that is not whitespace (0: there is none)
FirstNonSpace(text, i) ==
    LET ns == {k \in (i+1)..Len(text) : ~IsSpaceTok(text[k])}
    IN  IF ns = {} THEN 0 ELSE MinOf(ns)

\* positions where  ^Action:\s*(.+)$  matches under re.MULTILINE
ActionMatches(text) ==
    {i \in 1..Len(text) :
        /\ text[i] = ActionTok
        /\ AtLineStart(text, i)
        /\ \/ FirstNonSpace(text, i) # 0
           \/ \E k \in (i+1)..Len(text) : text[k] = SP}

\* group(1).strip() of the match at i
ActionAt(text, i) ==
    LET k == FirstNonSpace(text, i)
    IN  IF k = 0 THEN <<>> ELSE Strip(SubSeq(text, k, LineEnd(text, k)))

\* the positions a  \}\s*$  can end at after the opening brace at k0
InputClosers(text, k0) ==
    {k \in (k0+1)..Len(text) :
        /\ text[k] = "}"
        /\ LET rest == {j \in (k+1)..Len(text) : text[j] # SP}
           IN  rest = {} \/ text[MinOf(rest)] = NL}

\* positions where  ^Action Input:\s*(\{.*\})\s*$  matches (MULTILINE|DOTALL)
InputMatches(text) ==
    {i \in 1..Len(text) :
        /\ text[i] = InputTok
        /\ AtLineStart(text, i)
        /\ FirstNonSpace(text, i) # 0
        /\ text[FirstNonSpace(text, i)] = "{"
        /\ InputClosers(text, FirstNonSpace(text, i)) # {}}

RawInputAt(text, i) ==
    LET k0 == FirstNonSpace(text, i)
    IN  SubSeq(text, k0, MaxOf(InputClosers(text, k0)))

\* ReActAgent._parse_react_step; ok = FALSE is the ValueError
ParseReactStep(text) ==
    LET am == ActionMatches(text)
        im == InputMatches(text)
        failed == [ok |-> FALSE, action |-> Unbound, action_input |-> UnboundVal]
    IN  IF am = {} THEN failed
        ELSE IF im = {} THEN failed
        ELSE LET j == JsonLoads(RawInputAt(text, MinOf(im)))
             IN  IF ~j.ok THEN failed
                 ELSE [ok |-> TRUE, action |-> ActionAt(text, MinOf(am)),
                       action_input |-> j.val]

\* re.search(r"Thought:\s*(.+?)\s*Action:", content, re.DOTALL), stripped
ThoughtEnd(text, i) ==
    LET k == FirstNonSpace(text, i)
        w == IF k = 0 THEN Len(text) - i ELSE k - i - 1
        later == {j \in (i + 2 + w)..Len(text) : text[j] = ActionTok}
    IN  IF later # {} THEN MinOf(later)
        ELSE IF w >= 1 /\ k # 0 /\ text[k] = ActionTok THEN k
        ELSE 0

ThoughtText(text) ==
    LET tm == {i \in 1..Len(text) : text[i] = ThoughtTok /\ ThoughtEnd(text, i) # 0}
    IN  IF tm = {} THEN <<>>
        ELSE Strip(SubSeq(text, MinOf(tm) + 1, ThoughtEnd(text, MinOf(tm)) - 1))

\* str.lower() of a word
LowerTok(t) == IF t = "Finish" THEN "finish" ELSE t
Lower(s) == [i \in 1..Len(s) |-> LowerTok(s[i])]

\* variant: the comparison is made without lower()
IsFinishExact(a) == a = <<"finish">>

\* `action.lower() == "finish"`
IsFinish(a) == Lower(a) = <<"finish">>

\* `action_input.get("answer", content)`
FinalAnswer(ai, content) ==
    IF DictHas(ai, "answer") THEN <<DictGet(ai, "answer")>> ELSE content

\* ReActAgent._build_system_prompt: the template with the tool list and the
\* scratchpad substituted
ReactSystemPrompt(sp) ==
    <<"You are a ReAct-style agent.", NL>> \o ToolDescriptions
    \o <<NL, "Previous steps:", NL>> \o sp \o <<NL, "Now produce the NEXT step only.">>

\* variant: the first message is replaced whatever its role is
WithSystemPromptOverwrite(h, prompt) ==
    IF Len(h) > 0
    THEN [h EXCEPT ![1] = SystemMsg(prompt)]
    ELSE <<SystemMsg(prompt)>>

\* run(), lines 183-187: the system message is rewritten in place, or
\* inserted when history does not start with one
WithSystemPrompt(h, prompt) ==
    IF Len(h) > 0 /\ h[1].role = "system"
    THEN [h EXCEPT ![1].content = prompt]
    ELSE <<SystemMsg(prompt)>> \o h

\* variant: the invocation is not wrapped, the tool's own exception escapes
ReactHandleToolCallUnwrapped(name, p, envRaises) ==
    IF ~IsRegistered(name)
    THEN [exc |-> "ToolNotFoundError", out |-> <<"Unknown tool:">> \o name,
          invoked |-> FALSE]
    ELSE LET inv == InvokeTool(ToolOf(name), p, envRaises)
         IN  IF inv.raised
             THEN [exc |-> inv.out[1], out |-> inv.out, invoked |-> TRUE]
             ELSE [exc |-> "none", out |-> inv.out, invoked |-> TRUE]

\* ReActAgent._handle_tool_call: the value returned or the exception raised
ReactHandleToolCall(name, p, envRaises) ==
    IF ~IsRegistered(name)
    THEN [exc |-> "ToolNotFoundError", out |-> <<"Unknown tool:">> \o name,
          invoked |-> FALSE]
    ELSE LET inv == InvokeTool(ToolOf(name), p, envRaises)
         IN  IF inv.raised
             THEN [exc |-> "ToolCallError",
                   out |-> <<"Tool execution failed:">> \o inv.out, invoked |-> TRUE]
             ELSE [exc |-> "none", out |-> inv.out, invoked |-> TRUE]

\* variant: only the execution failure is caught
ReactCaughtCallErrorOnly == {"ToolCallError"}

\* the exceptions the tool step of run() catches (line 216)
ReactCaught == {"ToolNotFoundError", "ToolCallError"}

\* the block run() adds to the scratchpad (lines 221-226)
ScratchpadBlock(thought, a, ai, obs) ==
    <<NL, ThoughtTok>> \o thought \o <<NL, ActionTok>> \o a
    \o <<NL, InputTok>> \o JsonDumps(ai) \o <<NL, "Observation:">> \o obs \o <<NL>>

\* variant: the ReAct loop takes one turn more
ReactLoopOneMore(t, mt) == t <= mt

\* `for turn_idx in range(1, self.max_turns + 1)` (line 177): another pass
\* follows pass t
ReactLoopContinues(t, mt) == t < mt

ReactReplies ==
    { <<ThoughtTok, SP, "hello", NL, ActionTok, SP, "add", NL,
        InputTok, SP, "{", "\"a\": 2", "}">>,
      <<ThoughtTok, SP, "hello", NL, ActionTok, SP, "nosuch", NL,
        InputTok, SP, "{", "\"a\": 2", "}">>,
      <<ThoughtTok, SP, "thanks", NL, ActionTok, SP, "Finish", NL,
        InputTok, SP, "{", "\"answer\": \"X\"", "}", NL>>,
      <<ActionTok, "Finish", NL, InputTok, "{", "}">>,
      <<ActionTok, SP, "finish", SP, NL, InputTok, "{", "\"answer\": \"X\"", "}">>,
      <<"hello">>,
      NoneContent,
      <<ThoughtTok, "hello", NL, ActionTok, "add", NL, InputTok, "5">>,
      <<ActionTok, "add", NL, InputTok, "{", "hello", "}">> }

\* run(), lines 171-175
ReactRun(u) ==
    /\ EnterRun("react")
    /\ history' = Append(history, UserMsg(u))
    /\ turn_idx' = 1
    /\ pc' = "turn"

\* variant: the reply of a turn that goes on to the tool step is appended
ReactHistoryAfterReplyAppended(h, m) == Append(h, m)

\* lines 190-193: the reply of the turn is kept in the local assistant_msg
\* and the history is left as it is
ReactHistoryAfterReply(h, m) == h

\* one pass of the loop up to the finish check (lines 180-210): the prompt is
\* rewritten, the model is called, its output parsed
ReactTurn(c, llmFails) ==
    /\ kind = "react" /\ status = "running" /\ pc = "turn"
    /\ llmCalls' = llmCalls + 1
    /\ LET h1 == WithSystemPrompt(history, ReactSystemPrompt(scratchpad))
           content == ContentOrEmpty(c)
           parsed == ParseReactStep(content)
           a == IF parsed.ok THEN parsed.action ELSE action
           ai == IF parsed.ok THEN parsed.action_input ELSE action_input
       IN  IF llmFails
           THEN /\ history' = h1
                /\ Raise("LLMCallError")
                /\ UNCHANGED <<assistant_msg, action, action_input, observation>>
           ELSE /\ assistant_msg' = AssistantMsg(c, <<>>)
                /\ action' = a
                /\ action_input' = ai
                /\ observation' = IF parsed.ok THEN observation ELSE content
                /\ IF a = Unbound
                   THEN history' = h1 /\ Raise("UnboundLocalError")
                   ELSE IF IsFinish(a)
                   THEN /\ history' = Append(h1, AssistantMsg(FinalAnswer(ai, content), <<>>))
                        /\ Return(FinalAnswer(ai, content))
                   ELSE /\ history' = ReactHistoryAfterReply(h1, AssistantMsg(c, <<>>))
                        /\ pc' = "tool"
                        /\ UNCHANGED <<status, result, error>>
    /\ UNCHANGED <<libVars, kind, max_turns, added, runs, entry_len, toolLog, turn_idx, tcIdx, scratchpad,
                   simpleLocals>>

\* the rest of the pass (lines 212-233): the tool step, the scratchpad, and
\* after the last pass the fallback answer
ReactToolStep(envRaises) ==
    /\ kind = "react" /\ status = "running" /\ pc = "tool"
    /\ LET h == ReactHandleToolCall(action, action_input, envRaises)
           content == ContentOrEmpty(assistant_msg.content)
       IN  /\ toolLog' = IF h.invoked
                         THEN Append(toolLog, [name |-> action, args |-> action_input,
                                               raised |-> h.exc # "none"])
                         ELSE toolLog
           /\ IF h.exc # "none" /\ h.exc \notin ReactCaught
              THEN /\ Raise(h.exc)
                   /\ UNCHANGED <<history, observation, scratchpad, turn_idx>>
              ELSE /\ observation' = h.out
                   /\ scratchpad' = scratchpad \o
                         ScratchpadBlock(ThoughtText(content), action, action_input, h.out)
                   /\ IF ReactLoopContinues(turn_idx, max_turns)
                      THEN /\ turn_idx' = turn_idx + 1
                           /\ pc' = "turn"
                           /\ UNCHANGED <<history, status, result, error>>
                      ELSE /\ history' = Append(history, AssistantMsg(content, <<>>))
                           /\ Return(content)
                           /\ UNCHANGED turn_idx
    /\ UNCHANGED <<libVars, kind, max_turns, added, runs, entry_len, llmCalls, assistant_msg, action,
                   action_input, tcIdx, simpleLocals>>

\* the statements of ReActAgent.run behind its entry
StepsReact ==
    \/ \E c \in ReactReplies, f \in BOOLEAN : ReactTurn(c, f)
    \/ \E e \in BOOLEAN : ReactToolStep(e)

NextReact ==
    \/ \E u \in UserInputs : ReactRun(u)
    \/ StepsReact

\* ------------------------------------------------------------------
\* OpenAIFunctionAgent (vero/agents/openai_function_agent.py)
\* ------------------------------------------------------------------
\* one entry of assistant_msg.tool_calls
ToolCall(id, name, arguments) == [id |-> id, name |-> name, arguments |-> arguments]

GoodArgs == <<"{", "\"a\": 2", "}">>

\* replies of the model to an OpenAIFunctionAgent
FunctionReplies ==
    { AssistantMsg(<<"hello">>, <<>>),
      AssistantMsg(NoneContent, <<>>),
      AssistantMsg(NoneContent, <<ToolCall("c1", <<"add">>, GoodArgs)>>),
      AssistantMsg(<<"thanks">>, <<ToolCall("c2", <<"add">>, <<"hello">>),
                                   ToolCall("c3", <<"add">>, GoodArgs)>>),
      AssistantMsg(NoneContent, <<ToolCall("c4", <<"nosuch">>, GoodArgs)>>),
      AssistantMsg(NoneContent, <<ToolCall("c5", <<"add">>, GoodArgs),
                                  ToolCall("c6", <<"nosuch">>, GoodArgs),
                                  ToolCall("c7", <<"add">>, GoodArgs)>>) }

\* variant: a payload that is no JSON leaves the arguments unset
FunctionArgsNoFallback(args_text) ==
    LET j == JsonLoads(args_text) IN IF j.ok THEN j.val ELSE NoneVal

\* lines 144-150: json.loads(args_text), {} when it fails
FunctionArgs(args_text) ==
    LET j == JsonLoads(args_text) IN IF j.ok THEN j.val ELSE EmptyDict

\* variant: the failure is not turned into an error string
FunctionToolOutputNoErrorString(inv) == IF inv.raised THEN <<>> ELSE inv.out

\* lines 158-167: str(output), the error string when the tool raised
FunctionToolOutput(inv) ==
    IF inv.raised THEN <<"Tool execution failed:">> \o inv.out ELSE inv.out

\* variant: the result message is tagged with the tool's name instead of
\* the id of the call
FunctionToolMessageTaggedByName(tc, inv) == ToolMsg(FunctionToolOutput(inv), tc.name[1])

\* variant: the result message is built without the id of the call
FunctionToolMessageWithoutId(tc, inv) == ToolMsg(FunctionToolOutput(inv), "")

\* lines 171-176: the tool-role message appended for a call
FunctionToolMessage(tc, inv) == ToolMsg(FunctionToolOutput(inv), tc.id)

\* variant: the range is one pass too long
FunctionLoopOneMore(t, mt) == t <= mt

\* `for turn_idx in range(1, self.max_turns + 1)` (line 106): another pass
\* follows pass t
FunctionLoopContinues(t, mt) == t < mt

\* run(), line 104
FunctionRun(u) ==
    /\ EnterRun("function")
    /\ history' = Append(history, UserMsg(u))
    /\ turn_idx' = 1
    /\ pc' = "turn"

\* variant: the content is returned as it is, None included
FunctionFinalAnswerRaw(m) == m.content

\* line 128: `assistant_msg.content or ""`, the final answer of a reply
\* without tool calls
FunctionFinalAnswer(m) == ContentOrEmpty(m.content)

\* lines 109-128: the model call of a pass, and the final answer
FunctionTurn(m, llmFails) ==
    /\ kind = "function" /\ status = "running" /\ pc = "turn"
    /\ llmCalls' = llmCalls + 1
    /\ IF llmFails
       THEN Raise("LLMCallError") /\ UNCHANGED <<history, assistant_msg, tcIdx>>
       ELSE /\ assistant_msg' = m
            /\ history' = Append(history, m)
            /\ IF Len(m.tool_calls) = 0
               THEN Return(FunctionFinalAnswer(m)) /\ UNCHANGED tcIdx
               ELSE /\ tcIdx' = 1
                    /\ pc' = "tools"
                    /\ UNCHANGED <<status, result, error>>
    /\ UNCHANGED <<libVars, kind, max_turns, added, runs, entry_len, toolLog, turn_idx, simpleLocals, reactLocals>>

\* variant: the names of all the calls still pending are looked up before
\* the i-th call is processed
FunctionLookupFailsAhead(m, i) ==
    \E k \in i..Len(m.tool_calls) : ~IsRegistered(m.tool_calls[k].name)

\* lines 152-155: self.tool_by_names.get(tool_name) of the i-th call gives
\* no tool
FunctionLookupFails(m, i) == ~IsRegistered(m.tool_calls[i].name)

\* variant: the requested calls are taken from the end of the list
PendingCallFromEnd(m, i) == m.tool_calls[Len(m.tool_calls) + 1 - i]

\* line 133: the i-th item of `for tc in assistant_msg.tool_calls`
PendingCall(m, i) == m.tool_calls[i]

\* lines 133-176: one pass of `for tc in assistant_msg.tool_calls`, and after
\* the last call of the last pass the RuntimeError of line 180
FunctionToolCall(envRaises) ==
    /\ kind = "function" /\ status = "running" /\ pc = "tools"
    /\ LET tc == PendingCall(assistant_msg, tcIdx)
           args == FunctionArgs(tc.arguments)
       IN  IF FunctionLookupFails(assistant_msg, tcIdx)
           THEN /\ Raise("ToolNotFoundError")
                /\ UNCHANGED <<history, toolLog, tcIdx, turn_idx>>
           ELSE LET inv == InvokeTool(ToolOf(tc.name), args, envRaises)
                IN  /\ toolLog' = Append(toolLog, [name |-> tc.name, args |-> args,
                                                   raised |-> inv.raised])
                    /\ history' = Append(history, FunctionToolMessage(tc, inv))
                    /\ IF tcIdx < Len(assistant_msg.tool_calls)
                       THEN /\ tcIdx' = tcIdx + 1
                            /\ UNCHANGED <<turn_idx, pc, status, result, error>>
                       ELSE IF FunctionLoopContinues(turn_idx, max_turns)
                       THEN /\ turn_idx' = turn_idx + 1
                            /\ pc' = "turn"
                            /\ UNCHANGED <<tcIdx, status, result, error>>
                       ELSE /\ Raise("RuntimeError")
                            /\ UNCHANGED <<tcIdx, turn_idx>>
    /\ UNCHANGED <<libVars, kind, max_turns, added, runs, entry_len, llmCalls, assistant_msg, simpleLocals,
                   reactLocals>>

\* the statements of OpenAIFunctionAgent.run behind its entry
StepsFunction ==
    \/ \E m \in FunctionReplies, f \in BOOLEAN : FunctionTurn(m, f)
    \/ \E e \in BOOLEAN : FunctionToolCall(e)

NextFunction ==
    \/ \E u \in UserInputs : FunctionRun(u)
    \/ StepsFunction

\* an agent on which only run() is called
Next == NextSimple \/ NextReact \/ NextFunction

Spec == Init /\ [][Next]_vars

\* the statement a run is at is executed: run() is sequential code, and a
\* call of the chat client or of a tool returns or raises
RunProgress == StepsSimple \/ StepsReact \/ StepsFunction

\* one call of run() on an agent, and the statements of the run
NextLive ==
    \/ \E k \in Kinds, u \in UserInputs : StartRun(k, u, 1)
    \/ RunProgress

\* one run of an agent of each strategy that does not stop in the middle
SpecLive == Init /\ [][NextLive]_vars /\ WF_vars(RunProgress)

\* an agent on which run(), add_message() and clear_history() are called in
\* any order
NextCalls == NextAgent \/ Next

SpecCalls == Init /\ [][NextCalls]_vars

\* the runs of the agents with calls of clear_history between them
NextClear == ClearHistory \/ Next

\* an agent on which run() is called once more than in Spec, nothing else
\* being called between the runs; the runs are kept to one turn
NextRuns ==
    \/ \E k \in Kinds, u \in UserInputs : StartRun(k, u, MaxRuns + 1)
    \/ Next

\* the agents of SpecRuns are constructed with max_turns = 1
InitRuns == Init /\ max_turns = 1

SpecRuns == InitRuns /\ [][NextRuns]_vars

SpecClear == Init /\ [][NextClear]_vars

\* ------------------------------------------------------------------
\* Tool schema generation (vero/tool/tool.py)
\* ------------------------------------------------------------------
\* largest number of parameters, the receiver apart, of a wrapped callable
MaxParams == 2

\* type annotations: a kind and the arguments of a subscripted generic
Ty(k) == [k |-> k, args |-> <<>>]
Generic(k, args) == [k |-> k, args |-> args]
NoneType == Ty("NoneType")
AnyType == Ty("Any")
\* inspect._empty: no annotation, no default
Empty == "<empty>"

Annotations ==
    { Ty("str"), Ty("int"), Ty("float"), Ty("bool"), Ty("dict"), Ty("list"),
      Generic("List", <<Ty("int")>>), Generic("List", <<>>),
      Generic("Dict", <<Ty("str"), Ty("str")>>),
      Generic("Union", <<Generic("Dict", <<Ty("str"), Ty("str")>>), NoneType>>),
      Generic("Union", <<Ty("int"), Ty("str"), NoneType>>),
      Ty("set"), Ty(Empty) }

\* typing.get_origin
GetOrigin(annotation) ==
    CASE annotation.k = "List" -> "list"
      [] annotation.k = "Dict" -> "dict"
      [] annotation.k = "Union" -> "Union"
      [] OTHER -> "None"

\* Tool.PYTHON_TO_JSON
PYTHON_TO_JSON ==
    [t \in {"str", "int", "float", "bool", "dict", "list"} |->
        CASE t = "str" -> "string"
          [] t = "int" -> "integer"
          [] t = "float" -> "number"
          [] t = "bool" -> "boolean"
          [] t = "dict" -> "object"
          [] t = "list" -> "array"]

\* Tool._annotation_to_schema: (schema, is_required)
RECURSIVE AnnotationToSchema(_, _)
AnnotationToSchema(annotation, default) ==
    LET origin == GetOrigin(annotation)
        args == annotation.args
        non_none == SelectSeq(args, LAMBDA a : a # NoneType)
    IN  IF origin = "Union" /\ Len(non_none) < Len(args) /\ Len(non_none) = 1
        THEN [schema |-> [anyOf |-> <<AnnotationToSchema(non_none[1], "None").schema,
                                      [type |-> "null"]>>],
              is_required |-> FALSE]
        ELSE IF origin = "list"
        THEN [schema |-> [type |-> "array",
                          items |-> AnnotationToSchema(
                                      IF Len(args) > 0 THEN args[1] ELSE AnyType,
                                      "None").schema],
              is_required |-> default = "None"]
        ELSE IF origin = "dict"
        THEN [schema |-> [type |-> "object",
                          additionalProperties |-> AnnotationToSchema(
                                      IF Len(args) = 2 THEN args[2] ELSE AnyType,
                                      "None").schema],
              is_required |-> default = "None"]
        ELSE IF annotation.k \in DOMAIN PYTHON_TO_JSON
        THEN [schema |-> [type |-> PYTHON_TO_JSON[annotation.k]],
              is_required |-> default = "None"]
        ELSE [schema |-> [type |-> "string"], is_required |-> default = "None"]

\* to_openai_schema, lines 84-86: a parameter without default gets None
DefaultOrNone(param) == IF param.default = Empty THEN "None" ELSE param.default

\* line 91: schema["description"] = name
WithDescription(sch, name) ==
    [key \in DOMAIN sch \cup {"description"} |->
        IF key = "description" THEN name ELSE sch[key]]

\* variant: the receiver is not skipped
SchemaParamsWithReceiver(t) == t.signature

\* lines 79-81: the parameters the loop does not skip
SchemaParams(t) == SelectSeq(t.signature, LAMBDA param : param.name # "self")

\* lines 94-95: the names appended to `required`, in the order of the signature
RECURSIVE RequiredFrom(_, _)
RequiredFrom(ps, i) ==
    IF i > Len(ps) THEN <<>>
    ELSE (IF AnnotationToSchema(ps[i].annotation, DefaultOrNone(ps[i])).is_required
          THEN <<ps[i].name>> ELSE <<>>) \o RequiredFrom(ps, i + 1)

\* Tool.to_openai_schema
ToOpenAISchema(t) ==
    LET ps == SchemaParams(t)
        names == {ps[i].name : i \in 1..Len(ps)}
        last(n) == ps[MaxOf({i \in 1..Len(ps) : ps[i].name = n})]
    IN  [type |-> "function",
         function |->
           [name |-> t.name,
            description |-> IF t.description = "None" THEN "" ELSE t.description,
            parameters |->
              [type |-> "object",
               properties |->
                 [n \in names |->
                    WithDescription(
                      AnnotationToSchema(last(n).annotation,
                                         DefaultOrNone(last(n))).schema, n)],
               required |-> RequiredFrom(ps, 1)]]]

\* the (annotation, default) pairs of the parameters: every annotation
\* without a default, and defaults None and 5 on some of them
ParameterChoices ==
    (Annotations \X {Empty})
    \cup {<<Ty("int"), "None">>, <<Ty("int"), "5">>, <<Ty("str"), "5">>,
          <<Generic("Union", <<Generic("Dict", <<Ty("str"), Ty("str")>>), NoneType>>),
            "None">>}

\* names of the parameters by position
ParamNameAt(i) == <<"query", "top_k", "filters", "lang", "page">>[i]

\* the receiver of a callable that is a method
SelfParam == [name |-> "self", annotation |-> Ty(Empty), default |-> Empty]

\* the signatures of the wrapped callables
PlainSignatures ==
    UNION { { [i \in 1..n |-> [name |-> ParamNameAt(i),
                               annotation |-> f[i][1],
                               default |-> f[i][2]]] :
              f \in [1..n -> ParameterChoices] } : n \in 0..MaxParams }
Signatures == PlainSignatures \cup {<<SelfParam>> \o sig : sig \in PlainSignatures}

\* the Tool objects: a name, a description (None when constructed without
\* one), the signature of the callable
Tools ==
    [name : {"search"}, description : {"Search documents", "None"},
     signature : Signatures]

\* an agent that is constructed and left alone while a library object is
\* exercised
InitAgentAside == InitAgent /\ kind = "simple" /\ max_turns = 1

InitTool ==
    /\ InitAgentAside
    /\ tool \in Tools
    /\ schema = NoObject
    /\ NoChat /\ NoMessage /\ NoRegistry

\* a call of tool.to_openai_schema()
ToOpenaiSchemaCall ==
    /\ tool # NoObject
    /\ schema' = ToOpenAISchema(tool)
    /\ UNCHANGED <<tool, agentVars, chatVars, messageVars, registryVars>>

NextTool == ToOpenaiSchemaCall

SpecTool == InitTool /\ [][NextTool]_vars

\* ------------------------------------------------------------------
\* ChatOpenAI (vero/core/chat_openai.py)
\* ------------------------------------------------------------------
\* largest number of chunks of a streamed response
MaxChunks == 3

\* a chunk of a streamed response: the text of its delta ("" for a delta
\* without content), or the place where iterating the response raises
StreamError == "<error>"
ChunkKinds == {"Hel", "lo", "", StreamError}

Usage == [prompt_tokens |-> 10, completion_tokens |-> 5, total_tokens |-> 15]

\* what self._client.chat.completions.create does for the call: it raises, or
\* it returns a completion (choices[i].message.content, usage) or, with
\* stream=True, an iterator over chunks
Responses ==
    [stream : {FALSE}, raises : BOOLEAN,
     choices : {<<>>, <<"Hello, world!">>, <<"None">>},
     usage : {Usage}, chunks : {<<>>}]
    \cup
    [stream : {TRUE}, raises : BOOLEAN, choices : {<<>>}, usage : {Usage},
     chunks : UNION {[1..n -> ChunkKinds] : n \in 0..MaxChunks}]

\* ChatOpenAI.generate, lines 93-117: the value returned and the exception
\* raised
Generate(resp) ==
    IF resp.raises
    THEN [value |-> [type |-> "raised"], error |-> "LLMCallError"]
    ELSE IF resp.stream
    THEN [value |-> [type |-> "iterator", pos |-> 0], error |-> "none"]
    ELSE IF Len(resp.choices) = 0
    THEN [value |-> [type |-> "raised"], error |-> "LLMCallError"]
    ELSE [value |-> [type |-> "str", content |-> resp.choices[1]], error |-> "none"]

\* _stream_generator, lines 105-110: the next chunk after pos that the loop
\* does not skip; Len + 1 when the response is used up
NextChunk(chunks, pos) ==
    MinOf({k \in (pos + 1)..Len(chunks) : chunks[k] # ""} \cup {Len(chunks) + 1})

InitChat ==
    /\ InitAgentAside
    /\ response \in Responses
    /\ generated = NoObject
    /\ fragments = <<>>
    /\ chat_error = "none"
    /\ NoTool /\ NoMessage /\ NoRegistry

\* a call of generate(messages, stream=response.stream)
GenerateCall ==
    /\ response # NoObject /\ generated = NoObject
    /\ generated' = Generate(response).value
    /\ chat_error' = Generate(response).error
    /\ UNCHANGED <<response, fragments, agentVars, toolVars, messageVars, registryVars>>

\* the caller takes the next item of the iterator generate returned; the
\* generator body runs outside the try statement of generate
StreamNext ==
    /\ generated # NoObject /\ generated.type = "iterator"
    /\ chat_error = "none"
    /\ generated.pos <= Len(response.chunks)
    /\ LET k == NextChunk(response.chunks, generated.pos)
       IN  /\ generated' = [generated EXCEPT !.pos = k]
           /\ IF k > Len(response.chunks)
              THEN UNCHANGED <<fragments, chat_error>>
              ELSE IF response.chunks[k] = StreamError
              THEN chat_error' = "ProviderError" /\ UNCHANGED fragments
              ELSE /\ fragments' = Append(fragments, response.chunks[k])
                   /\ UNCHANGED chat_error
    /\ UNCHANGED <<response, agentVars, toolVars, messageVars, registryVars>>

NextChat == GenerateCall \/ StreamNext

SpecChat == InitChat /\ [][NextChat]_vars

\* ------------------------------------------------------------------
\* The tool helpers of the Agent base class (vero/core/agent.py)
\* ------------------------------------------------------------------
\* largest number of tools an agent is constructed with
MaxTools == 3

\* the tools an agent is constructed with: two names, descriptions of one
\* line and of several lines, with and without arguments
ToolObjects ==
    [name : {"add", "search"},
     arguments : {<<>>, <<"a: int", "b: int">>},
     description : {<<"Add numbers">>,
                    <<"Search the web.", NL, NL, "Args:", NL, "query">>}]

ToolLists == UNION {[1..n -> ToolObjects] : n \in 0..MaxTools}

InitRegistry ==
    /\ InitAgentAside
    /\ tools \in ToolLists
    /\ by_names = NoObject
    /\ descriptions = NoObject
    /\ NoTool /\ NoChat /\ NoMessage

\* a read of the property agent.tool_by_names
ReadToolByNames ==
    /\ by_names' = ToolByNames(tools)
    /\ UNCHANGED <<tools, descriptions, agentVars, toolVars, chatVars, messageVars>>

\* a read of the property agent.tool_descriptions
ReadToolDescriptions ==
    /\ descriptions' = ToolLinesOf(tools, 1)
    /\ UNCHANGED <<tools, by_names, agentVars, toolVars, chatVars, messageVars>>

NextRegistry == ReadToolByNames \/ ReadToolDescriptions

SpecRegistry == InitRegistry /\ [][NextRegistry]_vars

\* ------------------------------------------------------------------
\* Message (vero/core/message.py)
\* ------------------------------------------------------------------
\* latest value of int(time.time()) at the construction of a message
MaxTime == 2

\* Python values of the fields of a message
PyNone == [t |-> "none"]
PyStr(s) == [t |-> "str", v |-> s]
PyInt(n) == [t |-> "int", v |-> n]
PyList(items) == [t |-> "list", v |-> items]
PyDict(f) == [t |-> "dict", v |-> f]

\* the fields of Message with their defaults and the default factories of
\* timestamp and metadata; kw holds the fields the caller gave
MessageObject(kw, now) ==
    LET given(k, default) == IF k \in DOMAIN kw THEN kw[k] ELSE default IN
    [content |-> given("content", PyNone),
     role |-> kw.role,
     name |-> given("name", PyNone),
     tool_call_id |-> given("tool_call_id", PyNone),
     tool_calls |-> given("tool_calls", PyNone),
     timestamp |-> given("timestamp", PyInt(now)),
     metadata |-> given("metadata", PyDict(<<>>))]

\* the keyword arguments **kw a caller of a factory adds
KeywordArgs ==
    {<<>>,
     [name |-> PyStr("bob")],
     [metadata |-> PyDict([foo |-> "bar"])],
     [name |-> PyStr("bob"), metadata |-> PyDict([total_tokens |-> 15])]}

\* dict(a, **b)
Merged(a, b) ==
    [k \in DOMAIN a \cup DOMAIN b |-> IF k \in DOMAIN b THEN b[k] ELSE a[k]]

\* Message.user, Message.system, Message.assistant, Message.tool
MessageUser(content, kw, now) ==
    MessageObject(Merged([role |-> PyStr("user"), content |-> content], kw), now)
MessageSystem(content, kw, now) ==
    MessageObject(Merged([role |-> PyStr("system"), content |-> content], kw), now)
MessageAssistant(content, tool_calls, kw, now) ==
    MessageObject(Merged([role |-> PyStr("assistant"), content |-> content,
                          tool_calls |-> tool_calls], kw), now)
MessageTool(content, tool_call_id, kw, now) ==
    MessageObject(Merged([role |-> PyStr("tool"), content |-> content,
                          tool_call_id |-> tool_call_id], kw), now)

\* contents: text, the empty text and a list of multimodal parts
Contents ==
    {PyStr("hi"), PyStr(""),
     PyList(<<[type |-> "text", text |-> "hello"],
              [type |-> "input_audio", audio_url |-> "http://example.com/a.wav"]>>)}

ToolCallLists ==
    {PyNone, PyList(<<>>),
     PyList(<<[id |-> "c1", type |-> "function",
               function |-> [name |-> "add", arguments |-> "{}"]]>>)}

FactoryMessages ==
    UNION {
        {MessageUser(c, kw, now) : c \in Contents}
        \cup {MessageSystem(c, kw, now) : c \in Contents}
        \cup {MessageAssistant(c, tc, kw, now) :
                 c \in Contents \cup {PyNone}, tc \in ToolCallLists}
        \cup {MessageTool(c, id, kw, now) :
                 c \in Contents, id \in {PyStr("c1"), PyStr("c2")}}
        : kw \in KeywordArgs, now \in 1..MaxTime}

\* variant: the None values are kept
ToDictKeepNone(m) ==
    [k \in DOMAIN m \ {"timestamp", "metadata"} |-> m[k]]

\* Message.to_dict
ToDict(m) ==
    LET keys == {k \in DOMAIN m \ {"timestamp", "metadata"} : m[k] # PyNone}
    IN  [k \in keys |-> m[k]]

InitMessage ==
    /\ InitAgentAside
    /\ message \in FactoryMessages
    /\ d = NoObject
    /\ NoTool /\ NoChat /\ NoRegistry

\* a call message.to_dict()
ToDictCall ==
    /\ message # NoObject
    /\ d' = ToDict(message)
    /\ UNCHANGED <<message, agentVars, toolVars, chatVars, registryVars>>

NextMessage == ToDictCall

SpecMessage == InitMessage /\ [][NextMessage]_vars

\* ------------------------------------------------------------------
\* Properties
\* ------------------------------------------------------------------
Ended == status \in {"returned", "raised"}

\* C1: in OpenAIFunctionAgent.run, whenever a model call is about to be made
\* after a turn whose assistant message carried K >= 1 tool calls, history
\* ends with that assistant message followed by exactly K tool-role messages,
\* the i-th of which carries the id of the i-th call.
C1_ToolResultsBeforeNextCall ==
    (kind = "function" /\ status = "running" /\ pc = "turn" /\ turn_idx > 1) =>
        LET K == Len(assistant_msg.tool_calls)
            n == Len(history)
        IN  /\ K >= 1
            /\ n - K > entry_len + 1
            /\ history[n - K] = assistant_msg
            /\ \A i \in 1..K :
                  /\ history[n - K + i].role = "tool"
                  /\ history[n - K + i].tool_call_id = assistant_msg.tool_calls[i].id
            /\ Cardinality({i \in (entry_len + 2)..n : history[i].role = "tool"})
                 = Len(toolLog)

\* C1 witness: a second model call is due after a turn with two tool calls,
\* one of which raised
C1_Witness ==
    /\ kind = "function" /\ status = "running" /\ pc = "turn" /\ turn_idx = 2
    /\ Len(assistant_msg.tool_calls) = 2
    /\ \E i \in 1..Len(toolLog) : toolLog[i].raised

\* the text of the last reply the current run received
LastReplyText == ContentOrEmpty(assistant_msg.content)

\* the step is a model call that returned a reply to an agent of kind k
GotReply(k) ==
    /\ kind = k /\ status = "running"
    /\ llmCalls' = llmCalls + 1
    /\ error' # "LLMCallError"

\* C2: in ReActAgent.run a turn whose model output fails to parse (on the
\* first turn or a later one) does not make run raise; the raw model text is
\* that turn's observation and the loop goes on.
C2_ParseFailureNotFatal ==
    (kind = "react" /\ assistant_msg # NoMsg /\ ~ParseReactStep(LastReplyText).ok) =>
        /\ ~(status = "raised" /\ error # "LLMCallError")
        /\ observation = LastReplyText

\* the first reply of the current SimpleAgent run
SimpleHasReply == kind = "simple" /\ Len(history) >= entry_len + 2
SimpleFirstText == ContentOrEmpty(history[entry_len + 2].content)

\* the rest of the line after the tag matched at i
TagPayload(text, i) == Strip(SubSeq(text, i + 3, LineEnd(text, i + 3)))

\* the tag matched at i is TOOL_CALL:<name>:<json-object> with a registered name
WellFormedTagAt(text, i) ==
    /\ text[i+1] \in ToolNames
    /\ JsonLoads(TagPayload(text, i)).ok
    /\ JsonLoads(TagPayload(text, i)).val.ty = "dict"

\* C3 as stated: whenever the first reply contains a well-formed tag naming a
\* registered tool, run invokes that tool once with the parsed object, makes
\* exactly one further model call and returns its content.
C3_WellFormedTagAlwaysAnswered ==
    (/\ SimpleHasReply /\ Ended /\ error # "LLMCallError"
     /\ \E i \in ToolCallMatches(SimpleFirstText) : WellFormedTagAt(SimpleFirstText, i)) =>
        /\ status = "returned"
        /\ llmCalls = 2
        /\ Len(toolLog) = 1
        /\ result = ContentOrEmpty(history[Len(history)].content)

\* C3 amended: when the first TOOL_CALL tag of the first reply is well formed
\* and names a registered tool, run invokes exactly that tool exactly once
\* with the parsed object; if the invocation returns, run makes exactly one
\* further model call and, when that call succeeds, returns its content; if
\* the invocation raises, run fails with ToolCallError after one model call.
C3_WellFormedTagInvokesOnce ==
    (/\ SimpleHasReply /\ Ended
     /\ ToolCallMatches(SimpleFirstText) # {}
     /\ WellFormedTagAt(SimpleFirstText, MinOf(ToolCallMatches(SimpleFirstText)))) =>
        LET i == MinOf(ToolCallMatches(SimpleFirstText))
        IN  /\ Len(toolLog) = 1
            /\ toolLog[1].name = <<SimpleFirstText[i+1]>>
            /\ toolLog[1].args = JsonLoads(TagPayload(SimpleFirstText, i)).val
            /\ IF toolLog[1].raised
               THEN status = "raised" /\ error = "ToolCallError" /\ llmCalls = 1
               ELSE /\ llmCalls = 2
                    /\ \/ status = "raised" /\ error = "LLMCallError"
                       \/ /\ status = "returned"
                          /\ history[Len(history)].role = "assistant"
                          /\ result = ContentOrEmpty(history[Len(history)].content)

\* C3 witness: a tag on the second line of the reply was answered after the
\* tool returned
C3_Witness ==
    /\ kind = "simple" /\ status = "returned" /\ llmCalls = 2
    /\ Len(toolLog) = 1 /\ ~toolLog[1].raised
    /\ DictHas(toolLog[1].args, "b")

C5_NoFinishReturnsLastReply ==
    (/\ kind = "react" /\ Ended /\ error # "LLMCallError"
     /\ ~(ParseReactStep(LastReplyText).ok
          /\ Lower(ParseReactStep(LastReplyText).action) = <<"finish">>)) =>
        /\ status = "returned"
        /\ llmCalls = max_turns
        /\ result = LastReplyText

\* every reply of the current OpenAIFunctionAgent run carries tool calls, all
\* of them naming registered tools
AllRepliesCallRegisteredTools ==
    \A i \in (entry_len + 2)..Len(history) :
        history[i].role = "assistant" =>
            /\ Len(history[i].tool_calls) >= 1
            /\ \A j \in 1..Len(history[i].tool_calls) :
                  IsRegistered(history[i].tool_calls[j].name)

RunReplies == {i \in (entry_len + 2)..Len(history) : history[i].role = "assistant"}

\* C6: an OpenAIFunctionAgent.run all of whose replies carry tool calls to
\* registered tools makes exactly max_turns model calls and then fails with
\* the 'reached max_turns' RuntimeError; it does not return.
C6_ExhaustedTurnsIsFatal ==
    (/\ kind = "function" /\ Ended /\ error # "LLMCallError"
     /\ AllRepliesCallRegisteredTools) =>
        /\ status = "raised"
        /\ error = "RuntimeError"
        /\ llmCalls = max_turns
        /\ Cardinality(RunReplies) = max_turns

\* C6 witness: two turns of tool calls, one of them failing, end in the error
C6_Witness ==
    /\ kind = "function" /\ status = "raised" /\ error = "RuntimeError"
    /\ max_turns = 2 /\ llmCalls = 2
    /\ \E i \in 1..Len(toolLog) : toolLog[i].raised

\* C7: in SimpleAgent.run and OpenAIFunctionAgent.run the tool call of a reply
\* that names an unregistered tool makes run fail with ToolNotFoundError, and
\* no model call follows the reply that carried it.
C7_UnknownToolIsFatal ==
    /\ (/\ SimpleHasReply
        /\ ToolCallMatches(SimpleFirstText) # {}
        /\ SimpleFirstText[MinOf(ToolCallMatches(SimpleFirstText)) + 1] \notin ToolNames) =>
            /\ status = "raised" /\ error = "ToolNotFoundError"
            /\ llmCalls = 1
            /\ toolLog = <<>>
    /\ kind = "function" =>
         \A i \in RunReplies :
            (\E j \in 1..Len(history[i].tool_calls) :
                 ~IsRegistered(history[i].tool_calls[j].name)) =>
               /\ \A k \in (i + 1)..Len(history) : history[k].role = "tool"
               /\ llmCalls = Cardinality(RunReplies)
               /\ \/ status = "raised" /\ error = "ToolNotFoundError"
                  \/ /\ status = "running" /\ pc = "tools"
                     /\ \E j \in tcIdx..Len(history[i].tool_calls) :
                           ~IsRegistered(history[i].tool_calls[j].name)

\* C7 witness: a SimpleAgent reply names an unregistered tool and carries a
\* payload that is not an object
C7_Witness ==
    /\ kind = "simple" /\ status = "raised" /\ error = "ToolNotFoundError"
    /\ tool_name = <<"nosuch">> /\ params.ty = "none"

\* C8: in ReActAgent.run a tool step that names an unregistered tool, or
\* whose tool raises, does not make run raise: the error text is the
\* observation recorded in the scratchpad and the loop goes on.
C8_ToolFailureIsObservation ==
    [][ (/\ kind = "react" /\ status = "running" /\ pc = "tool"
         /\ \/ ~IsRegistered(action)
            \/ /\ Len(toolLog') = Len(toolLog) + 1
               /\ toolLog'[Len(toolLog')].raised) =>
          /\ status' # "raised"
          /\ observation'[1] = (IF ~IsRegistered(action) THEN "Unknown tool:"
                                ELSE "Tool execution failed:")
          /\ Len(scratchpad') > Len(scratchpad) + Len(observation')
          /\ SubSeq(scratchpad', 1, Len(scratchpad)) = scratchpad
          /\ SubSeq(scratchpad', Len(scratchpad') - Len(observation') - 1, Len(scratchpad'))
               = <<"Observation:">> \o observation' \o <<NL>>
          /\ IF turn_idx < max_turns
             THEN status' = "running" /\ pc' = "turn" /\ turn_idx' = turn_idx + 1
             ELSE status' = "returned" ]_vars

\* C8 witness: the second turn is due after a first turn that named an
\* unregistered tool
C8_Witness ==
    /\ kind = "react" /\ status = "running" /\ pc = "turn" /\ turn_idx = 2
    /\ observation = <<"Unknown tool:", "nosuch">>

EscapingErrors(k) ==
    CASE k = "simple" -> {"ToolNotFoundError", "ToolCallError", "LLMCallError"}
      [] k = "function" -> {"ToolNotFoundError", "RuntimeError", "LLMCallError"}
      [] k = "react" -> {"LLMCallError", "UnboundLocalError"}

SimpleToolCallFailed ==
    /\ kind = "simple" /\ tool_name # Unbound /\ IsRegistered(tool_name)
    /\ \/ params.ty # "dict"
       \/ Len(toolLog) = 1 /\ toolLog[1].raised

\* C10 as stated: in SimpleAgent's single-shot path a tool-call error is
\* recoverable as an observation and does not abort run.
C10_ToolCallErrorRecoverable ==
    SimpleToolCallFailed => status # "raised"

\* C10 amended: in SimpleAgent's single-shot path a tool-call error
\* (parameters that are not an object, or a tool invocation that raises)
\* aborts run with ToolCallError: nothing is appended after the reply that
\* carried the tag and no further model call is made.
C10_ToolCallErrorAborts ==
    SimpleToolCallFailed =>
        /\ status = "raised" /\ error = "ToolCallError"
        /\ llmCalls = 1
        /\ Len(history) = entry_len + 2
        /\ history[Len(history)] = assistant_msg

\* C10 witness: the tool was invoked with an object it does not accept
C10_Witness ==
    /\ kind = "simple" /\ status = "raised" /\ error = "ToolCallError"
    /\ Len(toolLog) = 1 /\ toolLog[1].raised
    /\ DictKeys(toolLog[1].args) = {"b"}

\* the payload of the first tag of the first reply, as _parse_tool_call reads it
SimpleFirstPayload ==
    TagPayload(SimpleFirstText, MinOf(ToolCallMatches(SimpleFirstText)))

\* the payload is no JSON text and no Python literal, or it is one that does
\* not denote an object
PayloadIsNoObject(s) ==
    \/ ~JsonLoads(s).ok /\ ~LiteralEval(s).ok
    \/ JsonLoads(s).ok /\ JsonLoads(s).val.ty # "dict"
    \/ ~JsonLoads(s).ok /\ LiteralEval(s).ok /\ LiteralEval(s).val.ty # "dict"

\* C11: in SimpleAgent.run, when the tag of the first reply names a registered
\* tool and its payload parses neither as JSON nor as a Python literal, or
\* parses to something that is not an object, run fails with ToolCallError:
\* the tool is not invoked, no TOOL_RESULT message is appended and no second
\* model call is made.
C11_InvalidParamsAbort ==
    (/\ SimpleHasReply
     /\ ToolCallMatches(SimpleFirstText) # {}
     /\ SimpleFirstText[MinOf(ToolCallMatches(SimpleFirstText)) + 1] \in ToolNames
     /\ PayloadIsNoObject(SimpleFirstPayload)) =>
        /\ status = "raised" /\ error = "ToolCallError"
        /\ toolLog = <<>>
        /\ llmCalls = 1
        /\ Len(history) = entry_len + 2
        /\ \A i \in (entry_len + 1)..Len(history) :
              ~(history[i].role = "user" /\ Len(history[i].content) > 0
                /\ history[i].content[1] = "TOOL_RESULT:")

\* C11 witness: a run that failed so on a payload that is a number
C11_Witness ==
    /\ SimpleHasReply /\ status = "raised" /\ error = "ToolCallError"
    /\ toolLog = <<>>
    /\ ToolCallMatches(SimpleFirstText) # {}
    /\ JsonLoads(SimpleFirstPayload).ok
    /\ JsonLoads(SimpleFirstPayload).val.ty = "scalar"

\* C12: one SimpleAgent.run makes at most two model calls and at most one tool
\* invocation, whatever max_turns is and also when the second reply itself
\* contains a TOOL_CALL tag.
C12_SimpleAtMostTwoCalls ==
    kind = "simple" =>
        /\ llmCalls <= 2
        /\ Len(toolLog) <= 1
        /\ (llmCalls = 2 => Len(toolLog) = 1)
        /\ (Ended /\ llmCalls = 2 /\ error # "LLMCallError") =>
              /\ status = "returned"
              /\ Len(history) = entry_len + 4

\* C12 witness: with max_turns = 1 the run returned a second reply that holds a
\* well-formed tag, after one tool invocation
C12_Witness ==
    /\ kind = "simple" /\ max_turns = 1 /\ status = "returned"
    /\ llmCalls = 2 /\ Len(toolLog) = 1
    /\ ToolCallMatches(LastReplyText) # {}
    /\ WellFormedTagAt(LastReplyText, MinOf(ToolCallMatches(LastReplyText)))
    /\ result = LastReplyText

\* C13 as stated: for every strategy and every run, the number of model calls
\* made in the run never exceeds max_turns.
C13_CallsWithinMaxTurns == llmCalls <= max_turns

\* C13 amended: a run of ReActAgent or OpenAIFunctionAgent never makes more
\* than max_turns model calls; a run of SimpleAgent never makes more than two,
\* and it makes two after a successful tool invocation whatever max_turns is.
C13_CallsWithinMaxTurnsOrTwo ==
    /\ kind \in {"react", "function"} => llmCalls <= max_turns /\ turn_idx <= max_turns
    /\ kind = "simple" =>
          /\ llmCalls <= 2
          /\ (pc = "llm2" => llmCalls = 1)
          /\ (status = "returned" /\ Len(toolLog) = 1) => llmCalls = 2

\* C13 witness: a ReActAgent used up its max_turns = 2 model calls, each
\* followed by a tool step
C13_Witness ==
    kind = "react" /\ max_turns = 2 /\ llmCalls = 2 /\ Len(toolLog) = 2

\* the text holds the TOOL_CALL: marker somewhere
HoldsTag(text) == \E i \in 1..Len(text) : text[i] = TagTok

\* C14: in SimpleAgent.run, when the first reply holds no TOOL_CALL tag, run
\* returns the full content of that reply (the empty string for a reply
\* without content) after exactly one model call and without invoking a tool.
C14_NoTagReturnsReply ==
    (SimpleHasReply /\ ~HoldsTag(SimpleFirstText)) =>
        /\ status = "returned"
        /\ result = (IF history[entry_len + 2].content = NoneContent
                     THEN <<>> ELSE history[entry_len + 2].content)
        /\ llmCalls = 1
        /\ toolLog = <<>>
        /\ Len(history) = entry_len + 2
        /\ history[entry_len + 1].role = "user"
        /\ history[entry_len + 2].role = "assistant"

\* C14 witness: a run that returned a reply of plain text
C14_Witness ==
    /\ SimpleHasReply /\ status = "returned" /\ llmCalls = 1
    /\ ~HoldsTag(SimpleFirstText)
    /\ result = <<"hello">>

\* the replies of the current run that carry no tool calls
FinalReplies == {i \in RunReplies : Len(history[i].tool_calls) = 0}

\* C15: in OpenAIFunctionAgent.run the first reply that carries no tool calls
\* ends the run: its content (the empty string when it has none) is returned,
\* it is the last message of the history, so no tool message and no further
\* reply follows it, and the tools invoked are those of the replies before it.
C15_FinalTextEndsRun ==
    (kind = "function" /\ FinalReplies # {}) =>
        LET i == MinOf(FinalReplies)
        IN  /\ status = "returned"
            /\ result = (IF history[i].content = NoneContent
                         THEN <<>> ELSE history[i].content)
            /\ i = Len(history)
            /\ llmCalls = Cardinality(RunReplies)
            /\ Len(toolLog) = Cardinality({k \in (entry_len + 2)..i :
                                              history[k].role = "tool"})

\* C15 witness: a final reply without content came on the second turn, after
\* a turn of tool calls
C15_Witness ==
    /\ kind = "function" /\ status = "returned" /\ result = <<>>
    /\ llmCalls = 2 /\ Len(toolLog) >= 1
    /\ FinalReplies = {Len(history)}

\* the step invokes the tool of the call at tcIdx in an OpenAIFunctionAgent run
FunctionInvokes ==
    /\ kind = "function" /\ status = "running" /\ pc = "tools"
    /\ Len(toolLog') = Len(toolLog) + 1

\* C16: in OpenAIFunctionAgent.run, when the invocation of a registered tool
\* raises, the exception does not leave run: a tool-role message whose content
\* is the error string and whose tool_call_id is the id of that call is
\* appended, the next call of the turn is processed when there is one, and
\* after the last call the loop goes on to the next turn (to the max_turns
\* error when the turns are used up).
C16_ToolFailureBecomesToolMessage ==
    [][ (FunctionInvokes /\ toolLog'[Len(toolLog')].raised) =>
          LET tc == assistant_msg.tool_calls[tcIdx]
              K == Len(assistant_msg.tool_calls)
              last == history'[Len(history')]
          IN  /\ Len(history') = Len(history) + 1
              /\ SubSeq(history', 1, Len(history)) = history
              /\ last.role = "tool"
              /\ last.tool_call_id = tc.id
              /\ Len(last.content) = 2
              /\ last.content[1] = "Tool execution failed:"
              /\ last.content[2] \in {"boom", "TypeError"}
              /\ error' \notin {"ToolCallError", "ToolNotFoundError", "TypeError"}
              /\ IF tcIdx < K
                 THEN status' = "running" /\ pc' = "tools" /\ tcIdx' = tcIdx + 1
                 ELSE IF turn_idx < max_turns
                 THEN status' = "running" /\ pc' = "turn" /\ turn_idx' = turn_idx + 1
                 ELSE status' = "raised" /\ error' = "RuntimeError" ]_vars

\* C16 witness: the first of two calls raised inside the tool, both calls have
\* their tool message, and the model is asked again
C16_Witness ==
    /\ kind = "function" /\ status = "running" /\ pc = "turn" /\ turn_idx = 2
    /\ Len(toolLog) = 2 /\ toolLog[1].raised /\ ~toolLog[2].raised
    /\ history[Len(history) - 1].role = "tool"
    /\ history[Len(history) - 1].content = <<"Tool execution failed:", "TypeError">>
    /\ history[Len(history)].role = "tool"

\* the call at tcIdx names a registered tool and its payload is no JSON text
InvalidJsonCallDue ==
    /\ kind = "function" /\ status = "running" /\ pc = "tools"
    /\ assistant_msg.tool_calls[tcIdx].name[1] \in ToolNames
    /\ ~JsonLoads(assistant_msg.tool_calls[tcIdx].arguments).ok

\* C17: in OpenAIFunctionAgent.run a tool call whose argument payload is not
\* valid JSON does not abort the turn: the tool is invoked with empty
\* arguments, a tool-role message carrying the id of that call is appended,
\* and the turn goes on with the next call.
C17_InvalidJsonMeansEmptyArgs ==
    [][ InvalidJsonCallDue =>
          LET tc == assistant_msg.tool_calls[tcIdx]
              last == history'[Len(history')]
          IN  /\ toolLog' = Append(toolLog, [name |-> tc.name,
                                             args |-> [ty |-> "dict", kv |-> {}],
                                             raised |-> toolLog'[Len(toolLog')].raised])
              /\ Len(history') = Len(history) + 1
              /\ last.role = "tool"
              /\ last.tool_call_id = tc.id
              /\ error' \in {"none", "RuntimeError"}
              /\ tcIdx < Len(assistant_msg.tool_calls) =>
                    status' = "running" /\ pc' = "tools" /\ tcIdx' = tcIdx + 1 ]_vars

\* C17 witness: the call c2, whose payload is the bare word hello, was made
\* with empty arguments and answered, and the next call of the turn is due
C17_Witness ==
    /\ kind = "function" /\ status = "running" /\ pc = "tools" /\ tcIdx = 2
    /\ assistant_msg.tool_calls[1].arguments = <<"hello">>
    /\ toolLog[Len(toolLog)].args = EmptyDict
    /\ history[Len(history)].role = "tool"
    /\ history[Len(history)].tool_call_id = "c2"

\* the first message of a history that has one is a system message
StartsWithSystem(h) == Len(h) >= 1 => h[1].role = "system"

\* C18: for SimpleAgent and OpenAIFunctionAgent in every state from the end of
\* construction on, and for ReActAgent once a run has made a model call, the
\* first message of the history is a system message, whatever sequence of
\* run, add_message and clear_history calls was made.
C18_FirstMessageIsSystem ==
    /\ kind \in {"simple", "function"} => StartsWithSystem(history)
    /\ (kind = "react" /\ llmCalls >= 1) =>
          Len(history) >= 1 /\ history[1].role = "system"

\* the step belongs to a run: it enters run() or is taken inside it
RunStep == status = "running" \/ status' = "running"

\* message m is message n but for the content, and both are system messages
SystemRewritten(n, m) ==
    /\ n.role = "system"
    /\ m = [n EXCEPT !.content = m.content]

\* C19 as stated: during a run of any strategy every message already in the
\* history keeps its index, role and content and new messages are added at
\* the end only, but for ReActAgent rewriting the content of the system
\* message at index 0.
C19_AppendOnlyButSystemContent ==
    [][ RunStep =>
          /\ Len(history') >= Len(history)
          /\ \A i \in 1..Len(history) :
                \/ history'[i] = history[i]
                \/ kind = "react" /\ i = 1 /\ SystemRewritten(history[1], history'[1])
      ]_vars

\* C19 amended: during a run every message already in the history keeps its
\* role and content and its place relative to the others, and new messages
\* are added at the end, with two exceptions, both of ReActAgent before a
\* model call: when the history starts with a system message its content is
\* rewritten, and when it does not, a system message is inserted at index 0,
\* which moves every message already there up by one index.
C19_AppendOnlyButSystemMessage ==
    [][ RunStep =>
          \/ /\ Len(history') >= Len(history)
             /\ \A i \in 1..Len(history) :
                   \/ history'[i] = history[i]
                   \/ kind = "react" /\ i = 1
                        /\ SystemRewritten(history[1], history'[1])
          \/ /\ kind = "react"
             /\ ~(Len(history) >= 1 /\ history[1].role = "system")
             /\ Len(history') >= Len(history) + 1
             /\ history'[1].role = "system"
             /\ \A i \in 1..Len(history) : history'[i + 1] = history[i]
      ]_vars

\* C19 witness: a ReActAgent run whose system message was inserted in front of
\* the user message on the first turn and rewritten on the second
C19_Witness ==
    /\ kind = "react" /\ status = "running" /\ llmCalls = 2
    /\ Len(history) >= 2
    /\ history[1].role = "system"
    /\ history[1].content # ReactSystemPrompt(<<>>)
    /\ history[2] = UserMsg(<<"q">>)

\* the positions of the tool-role messages of the history
ToolMessages == {i \in 1..Len(history) : history[i].role = "tool"}

\* C20: in every history produced by agent runs, each tool-role message
\* carries a non-empty tool_call_id, and that id is the id of a tool_calls
\* entry of an assistant message that stands earlier in the same history.
C20_ToolMessageAnswersEarlierCall ==
    \A i \in ToolMessages :
        /\ history[i].tool_call_id # ""
        /\ \E j \in 1..(i - 1) :
              /\ history[j].role = "assistant"
              /\ \E k \in 1..Len(history[j].tool_calls) :
                    history[j].tool_calls[k].id = history[i].tool_call_id

\* C20 witness: a history with the tool messages of two turns, three in all,
\* the last of them answering the only call of the second turn
C20_Witness ==
    /\ kind = "function" /\ Cardinality(ToolMessages) = 3
    /\ history[Len(history)].role = "tool"
    /\ history[Len(history)].tool_call_id = "c1"
    /\ history[Len(history) - 1].role = "assistant"

\* the declared parameters of the tool, the receiver apart
DeclaredParams == SelectSeq(tool.signature, LAMBDA param : param.name # "self")

\* the annotation is a union one of whose members is None
Nullable(annotation) ==
    /\ annotation.k = "Union"
    /\ \E i \in 1..Len(annotation.args) : annotation.args[i] = NoneType

\* the names the schema lists as required
RequiredNames ==
    {schema.function.parameters.required[i] :
        i \in 1..Len(schema.function.parameters.required)}

\* C21: for every callable, the required list of the generated schema holds
\* exactly the names of the parameters that have no default and no nullable
\* type, each once, and none of the parameters that have a default (a default
\* of None included) or a nullable type.
C21_RequiredAreTheUndefaulted ==
    schema # NoObject =>
        LET N == {DeclaredParams[i].name : i \in
                    {j \in 1..Len(DeclaredParams) :
                        /\ DeclaredParams[j].default = Empty
                        /\ ~Nullable(DeclaredParams[j].annotation)}}
        IN  /\ RequiredNames = N
            /\ Len(schema.function.parameters.required) = Cardinality(N)

\* the schema fragment sch is what the type mapping of the specification
\* gives for the annotation: primitives by name, a mapping as object with a
\* value schema, a sequence as array with an item schema, a nullable type as
\* anyOf of the schema of its other member and null, anything else as string
RECURSIVE MapsAsListed(_, _)
MapsAsListed(annotation, sch) ==
    LET members == SelectSeq(annotation.args, LAMBDA a : a # NoneType)
    IN  IF Nullable(annotation)
        THEN /\ DOMAIN sch = {"anyOf"}
             /\ Len(sch.anyOf) = 2
             /\ sch.anyOf[2] = [type |-> "null"]
             /\ Len(members) = 1 => MapsAsListed(members[1], sch.anyOf[1])
        ELSE IF annotation.k \in {"dict", "Dict"}
        THEN /\ DOMAIN sch = {"type", "additionalProperties"}
             /\ sch.type = "object"
             /\ Len(annotation.args) = 2 =>
                   MapsAsListed(annotation.args[2], sch.additionalProperties)
        ELSE IF annotation.k \in {"list", "List"}
        THEN /\ DOMAIN sch = {"type", "items"}
             /\ sch.type = "array"
             /\ Len(annotation.args) = 1 =>
                   MapsAsListed(annotation.args[1], sch.items)
        ELSE /\ DOMAIN sch = {"type"}
             /\ sch.type = CASE annotation.k = "str" -> "string"
                             [] annotation.k = "int" -> "integer"
                             [] annotation.k = "float" -> "number"
                             [] annotation.k = "bool" -> "boolean"
                             [] OTHER -> "string"

\* the schema fragment without the description entry to_openai_schema adds
WithoutDescription(sch) == [key \in DOMAIN sch \ {"description"} |-> sch[key]]

\* C22: schema generation is total over parameter types: a schema is produced
\* for every signature, and in it str, int, float and bool are string,
\* integer, number and boolean, a mapping is an object with an
\* additionalProperties value schema, a sequence is an array with an items
\* schema, a nullable type is anyOf of [underlying schema, null], and every
\* other type is string.
C22_TypesMapAsListed ==
    schema # NoObject =>
        \A i \in 1..Len(DeclaredParams) :
            /\ DeclaredParams[i].name \in DOMAIN schema.function.parameters.properties
            /\ MapsAsListed(DeclaredParams[i].annotation,
                 WithoutDescription(
                   schema.function.parameters.properties[DeclaredParams[i].name]))

\* the structure has the shape of a function-calling descriptor of the tool
SchemaShape ==
    /\ DOMAIN schema = {"type", "function"}
    /\ schema.type = "function"
    /\ DOMAIN schema.function = {"name", "description", "parameters"}
    /\ schema.function.name = tool.name
    /\ schema.function.description =
          (IF tool.description = "None" THEN "" ELSE tool.description)
    /\ DOMAIN schema.function.parameters = {"type", "properties", "required"}
    /\ schema.function.parameters.type = "object"
    /\ DOMAIN schema.function.parameters.properties =
          {DeclaredParams[i].name : i \in 1..Len(DeclaredParams)}
    /\ \A n \in DOMAIN schema.function.parameters.properties :
          schema.function.parameters.properties[n].description = n
    /\ RequiredNames \subseteq DOMAIN schema.function.parameters.properties

\* C23: Tool.to_openai_schema returns a structure of exactly the shape
\* {type: function, function: {name, description, parameters: {type: object,
\* properties, required}}}, in which every declared parameter but the
\* receiver has its entry in properties, and a second call on the same Tool
\* returns a structure equal to that of the first.
C23_SchemaShapeAndDeterminism ==
    /\ [](schema # NoObject => SchemaShape)
    /\ [][schema # NoObject => schema' = schema]_vars

\* C23 witness: the schema of a method with two parameters after the receiver
C23_Witness ==
    /\ schema # NoObject
    /\ Len(tool.signature) = 3 /\ tool.signature[1].name = "self"
    /\ Cardinality(DOMAIN schema.function.parameters.properties) = 2
    /\ Len(schema.function.parameters.required) = 1

\* generate returned from a call with stream=False that the provider answered
NonStreamReturned ==
    /\ generated # NoObject
    /\ ~response.stream /\ ~response.raises /\ Len(response.choices) > 0

\* C24: ChatOpenAI.generate with stream=False returns one Message whose role
\* is assistant, whose content is the reply text of the provider and whose
\* metadata holds the usage counters (prompt, completion and total tokens).
C24_GenerateReturnsMessage ==
    NonStreamReturned =>
        /\ generated.type = "Message"
        /\ generated.role = "assistant"
        /\ generated.content = response.choices[1]
        /\ generated.metadata.usage = response.usage

\* C25: every transport or provider error of the chat client reaches the
\* caller as LLMCallError: when generate is called, and on the streaming path
\* also when the error occurs while the returned iterator is consumed.
C25_ErrorsSurfaceAsLLMCallError ==
    /\ chat_error \in {"none", "LLMCallError"}
    /\ (generated # NoObject /\ response.raises) => chat_error = "LLMCallError"
    /\ (/\ generated # NoObject /\ generated.type = "iterator"
        /\ generated.pos >= 1 /\ generated.pos <= Len(response.chunks)
        /\ response.chunks[generated.pos] = StreamError) =>
            chat_error = "LLMCallError"

\* C26: Agent.tool_by_names maps each name of a registered tool, and nothing
\* else, to a registered tool of that name, and when several registered tools
\* share a name it maps the name to the one registered last.
C26_LastRegistrationWins ==
    by_names # NoObject =>
        /\ DOMAIN by_names = {tools[i].name : i \in 1..Len(tools)}
        /\ \A n \in DOMAIN by_names :
              /\ by_names[n].name = n
              /\ \E i \in 1..Len(tools) :
                    /\ tools[i] = by_names[n]
                    /\ \A j \in (i + 1)..Len(tools) : tools[j].name # n

\* C26 witness: three tools of which the first and the last share a name and
\* differ, and the lookup of that name gives the last
C26_Witness ==
    /\ by_names # NoObject /\ Len(tools) = 3
    /\ tools[1].name = tools[3].name /\ tools[2].name # tools[1].name
    /\ tools[1] # tools[3]
    /\ by_names[tools[1].name] = tools[3]

\* the number of lines of a text
LineCount(text) ==
    IF text = <<>> THEN 0
    ELSE 1 + Cardinality({k \in 1..Len(text) : text[k] = NL})

\* C29 as claimed: the text of Agent.tool_descriptions has one line per
\* registered tool.
C29_OneLinePerTool ==
    descriptions # NoObject => LineCount(descriptions) = Len(tools)

\* the entry 'name(args) - description' of the i-th registered tool
EntryOf(i) ==
    <<tools[i].name, "(">> \o ArgsText(tools[i].arguments, 1)
        \o <<")", " - ">> \o tools[i].description

\* the offset in the listing at which the entry of the i-th tool starts
RECURSIVE EntryStart(_)
EntryStart(i) == IF i = 1 THEN 0 ELSE EntryStart(i - 1) + Len(EntryOf(i - 1)) + 1

EntriesInOrder ==
    LET n == Len(tools) IN
    /\ n = 0 => descriptions = <<>>
    /\ n > 0 => Len(descriptions) = EntryStart(n) + Len(EntryOf(n))
    /\ \A i \in 1..n :
          /\ SubSeq(descriptions, EntryStart(i) + 1,
                    EntryStart(i) + Len(EntryOf(i))) = EntryOf(i)
          /\ i < n => descriptions[EntryStart(i) + Len(EntryOf(i)) + 1] = NL

\* C29 amended: the text of Agent.tool_descriptions holds one entry
\* 'name(args) - description' per registered tool, in registration order,
\* separated by newlines (an entry has as many lines as the description of
\* its tool); a further read yields the same text, and a read changes neither
\* the tools nor any other state of the agent.
C29_OneEntryPerToolAndIdempotent ==
    /\ [](descriptions # NoObject => EntriesInOrder)
    /\ [][/\ descriptions # NoObject => descriptions' = descriptions
          /\ descriptions' # descriptions =>
                UNCHANGED <<tools, by_names, agentVars>>]_vars

\* C29 witness: the listing was read of three tools, the second with a
\* description of several lines and the first different from the third
C29_Witness ==
    /\ descriptions # NoObject /\ Len(tools) = 3
    /\ Len(tools[2].description) > 1 /\ Len(tools[1].description) = 1
    /\ tools[1].name # tools[3].name
    /\ LineCount(descriptions) > 3

\* C27 as claimed: the mapping Message.to_dict returns has a role entry and a
\* content entry, equal to the role and the content of the message.
C27_ToDictHasRoleAndContent ==
    d # NoObject =>
        /\ "role" \in DOMAIN d /\ d["role"] = message.role
        /\ "content" \in DOMAIN d /\ d["content"] = message.content

\* C27 amended: the mapping has a role entry equal to the role of the
\* message; it has a content entry, equal to the content of the message,
\* exactly when that content is not None.
C27_ToDictRoleAndPresentContent ==
    d # NoObject =>
        /\ "role" \in DOMAIN d /\ d["role"] = message.role
        /\ message.content # PyNone =>
              "content" \in DOMAIN d /\ d["content"] = message.content
        /\ message.content = PyNone => "content" \notin DOMAIN d

\* C27 witness: to_dict was called on an assistant message built with
\* tool_calls and without content
C27_Witness ==
    /\ d # NoObject
    /\ message.role = PyStr("assistant")
    /\ message.content = PyNone
    /\ message.tool_calls # PyNone /\ Len(message.tool_calls.v) = 1
    /\ "tool_calls" \in DOMAIN d

\* C28: a call of clear_history, whatever the history holds, leaves it empty
\* and changes neither the class of the agent nor max_turns, the registered
\* tools or any object beside the agent.
C28_ClearHistoryEmptiesOnly ==
    [][ClearHistory =>
          /\ history' = <<>>
          /\ UNCHANGED <<kind, max_turns, tools, by_names, descriptions>>
          /\ UNCHANGED <<tool, schema, message, d, chatVars>>]_vars

\* C28 witness: after a run that added messages, history is empty again
C28_Witness ==
    /\ runs > 0 /\ status = "idle" /\ history = <<>> /\ entry_len = 0

\* the tool loop of a turn of OpenAIFunctionAgent is at a pending call
InToolLoop == kind = "function" /\ status = "running" /\ pc = "tools"

\* the calls of the turn before the pending one are answered: history ends
\* with the assistant message of the turn followed by one tool message per
\* such call, in the order of the request list, and the log of invocations
\* ends with these calls in the same order
EarlierCallsAnswered ==
    LET done == tcIdx - 1
        n == Len(history)
        l == Len(toolLog)
    IN  /\ done < Len(assistant_msg.tool_calls)
        /\ n > done /\ l >= done
        /\ history[n - done] = assistant_msg
        /\ \A i \in 1..done :
              /\ history[n - done + i].role = "tool"
              /\ history[n - done + i].tool_call_id = assistant_msg.tool_calls[i].id
              /\ toolLog[l - done + i].name = assistant_msg.tool_calls[i].name

\* C30: in a turn of OpenAIFunctionAgent.run whose reply requests several
\* tool calls, the calls are taken one per step in the order of the request
\* list: when call i is pending the calls before it have been invoked and
\* answered, in request order, right after the assistant message; the step of
\* call i invokes the tool of that call once and appends its tool message,
\* and makes no model call.
C30_ToolCallsSequentialInRequestOrder ==
    /\ [](InToolLoop => EarlierCallsAnswered)
    /\ [][InToolLoop =>
            /\ llmCalls' = llmCalls
            /\ Len(toolLog') <= Len(toolLog) + 1
            /\ Len(toolLog') = Len(toolLog) + 1 =>
                  /\ toolLog'[Len(toolLog')].name = assistant_msg.tool_calls[tcIdx].name
                  /\ Len(history') = Len(history) + 1
                  /\ SubSeq(history', 1, Len(history)) = history
                  /\ history'[Len(history')].role = "tool"
                  /\ history'[Len(history')].tool_call_id
                        = assistant_msg.tool_calls[tcIdx].id
            /\ Len(toolLog') = Len(toolLog) => history' = history]_vars

\* C30 witness: the turn whose reply requested the calls c2 and c3 is over,
\* with one model call made and the two tool messages in that order behind
\* the assistant message
C30_Witness ==
    /\ kind = "function" /\ llmCalls = 1 /\ Len(toolLog) = 2
    /\ Len(history) >= 3
    /\ history[Len(history) - 2] = assistant_msg
    /\ Len(assistant_msg.tool_calls) = 2
    /\ history[Len(history) - 1].tool_call_id = "c2"
    /\ history[Len(history)].tool_call_id = "c3"

\* the one tool invocation of the current SimpleAgent run succeeded
SimpleToolSucceeded ==
    kind = "simple" /\ status # "idle" /\ Len(toolLog) = 1 /\ ~toolLog[1].raised

\* C31: in SimpleAgent.run, once the tool invocation has succeeded, the
\* messages the run has added are the user input, the first assistant reply
\* and a user-role message TOOL_RESULT:<output>, in this order; that message
\* is there before the follow-up model call is made, and when the run has
\* returned the only further message is the final assistant reply.
C31_ToolResultBeforeFollowUp ==
    SimpleToolSucceeded =>
        /\ Len(history) >= entry_len + 3
        /\ history[entry_len + 1].role = "user"
        /\ history[entry_len + 1].content \in UserInputs
        /\ history[entry_len + 2].role = "assistant"
        /\ history[entry_len + 3].role = "user"
        /\ history[entry_len + 3].content =
              <<"TOOL_RESULT:">> \o ToolResult(ToolOf(toolLog[1].name), toolLog[1].args)
        /\ llmCalls = 1 => Len(history) = entry_len + 3 /\ status = "running"
        /\ llmCalls = 2 => status # "running"
        /\ llmCalls \in {1, 2}
        /\ status = "raised" => Len(history) = entry_len + 3 /\ error = "LLMCallError"
        /\ status = "returned" =>
              /\ Len(history) = entry_len + 4
              /\ history[entry_len + 4].role = "assistant"
              /\ result = ContentOrEmpty(history[entry_len + 4].content)

\* C31 witness: a run that returned after a successful invocation of add
\* with both arguments
C31_Witness ==
    /\ SimpleToolSucceeded /\ status = "returned"
    /\ DictKeys(toolLog[1].args) = {"a", "b"}
    /\ history[entry_len + 3].content = <<"TOOL_RESULT:", "5">>
    /\ history[entry_len + 4].content = <<"hello">>

\* the number of blocks of a scratchpad
BlockCount(sp) == Cardinality({k \in 1..Len(sp) : sp[k] = "Observation:"})

\* the observation a block records: what stands behind its Observation: label
BlockObservation(block) ==
    LET k == MaxOf({i \in 1..Len(block) : block[i] = "Observation:"})
    IN  SubSeq(block, k + 1, Len(block) - 1)

\* C32: at turn t of a ReActAgent.run the system message passed to the model
\* is the prompt built from the scratchpad, which holds t-1 blocks; and the
\* block a turn adds records the action and the input parsed from the reply
\* of that turn with the observation of the tool step, or, when the reply did
\* not parse, the raw text of the reply as its observation.
C32_ScratchpadRecordsEachTurn ==
    [][(kind = "react" /\ status = "running") =>
          /\ llmCalls' = llmCalls + 1 =>
                /\ history'[1].role = "system"
                /\ history'[1].content = ReactSystemPrompt(scratchpad)
                /\ BlockCount(scratchpad) = turn_idx - 1
          /\ scratchpad' # scratchpad =>
                LET block == SubSeq(scratchpad', Len(scratchpad) + 1, Len(scratchpad'))
                    p == ParseReactStep(LastReplyText)
                IN  /\ SubSeq(scratchpad', 1, Len(scratchpad)) = scratchpad
                    /\ BlockCount(block) = 1
                    /\ IF p.ok
                       THEN block = ScratchpadBlock(ThoughtText(LastReplyText), p.action,
                                                    p.action_input, BlockObservation(block))
                       ELSE BlockObservation(block) = LastReplyText]_vars

\* C35: in a turn of ReActAgent.run whose reply does not parse, no tool is
\* invoked: no step taken while that reply is the current one adds an
\* invocation to the log.
C35_NoToolOnParseFailure ==
    [][(/\ kind = "react" /\ status = "running" /\ assistant_msg # NoMsg
        /\ ~ParseReactStep(LastReplyText).ok) =>
           toolLog' = toolLog]_vars

\* the step enters a run that is not the first run of the agent
LaterRunStarts == status # "running" /\ status' = "running" /\ runs >= 1

\* the step is the first model call of a run that is not the first
LaterRunFirstCall ==
    status = "running" /\ runs >= 2 /\ llmCalls = 0 /\ llmCalls' = 1

\* C33: history persists across the runs of one agent when clear_history is
\* not called: a later run starts by appending its user message to the
\* history the earlier runs left, and at its first model call the history
\* handed to the model holds the messages the earlier runs appended, in their
\* order and at their places, followed by the new user message (ReActAgent
\* having rewritten only the system message at index 0 before the call).
C33_HistoryPersistsAcrossRuns ==
    [][/\ LaterRunStarts =>
            /\ Len(history') = Len(history) + 1
            /\ SubSeq(history', 1, Len(history)) = history
            /\ history'[Len(history')].role = "user"
            /\ history'[Len(history')].content \in UserInputs
            /\ entry_len' = Len(history)
       /\ LaterRunFirstCall =>
            /\ Len(history) = entry_len + 1
            /\ Len(history') >= Len(history)
            /\ \A i \in 2..Len(history) : history'[i] = history[i]
            /\ IF kind = "react"
               THEN history[1].role = "system" /\ history'[1].role = "system"
               ELSE history'[1] = history[1]]_vars

\* C33 witness: the second run of a SimpleAgent has made its first model call
\* on a history that holds the four messages of a first run with a tool
\* invocation, the system message before them and the new user message
C33_Witness ==
    /\ kind = "simple" /\ runs = 2 /\ status = "running" /\ llmCalls = 1
    /\ entry_len = 5
    /\ history[4].role = "user" /\ history[4].content[1] = "TOOL_RESULT:"
    /\ history[6] = UserMsg(<<"q">>)
    /\ Len(history) = 7

\* every tool call of every assistant message of h is answered by a later
\* tool-role message of h that carries its id
AllCallsAnswered(h) ==
    \A i \in 1..Len(h) :
        h[i].role = "assistant" =>
            \A k \in 1..Len(h[i].tool_calls) :
                \E j \in (i + 1)..Len(h) :
                    h[j].role = "tool" /\ h[j].tool_call_id = h[i].tool_calls[k].id

\* C36: at every model call of OpenAIFunctionAgent, over the runs of one
\* agent, every tool call of every assistant message of the history passed
\* to the model is answered by a later tool-role message with its id.
C36_CallsAnsweredAtModelCall ==
    [][(kind = "function" /\ status = "running" /\ llmCalls' = llmCalls + 1) =>
           AllCallsAnswered(history)]_vars

\* C34: when every call of the chat client and every tool invocation returns
\* or raises, every run of every strategy, for every max_turns and every
\* sequence of model replies, eventually ends: it returns or it raises.
C34_EveryRunEnds == [](status = "running" => <>(status \in {"returned", "raised"}))

\* C34 witness: a run of OpenAIFunctionAgent that used up its two turns on
\* tool calls has ended
C34_Witness ==
    /\ kind = "function" /\ max_turns = 2 /\ turn_idx = 2
    /\ status = "raised" /\ error = "RuntimeError" /\ llmCalls = 2

\* the number of system messages ReActAgent.run put in front of the history
\* of the current run: one when the history held nothing at entry
ReactInserted == IF entry_len = 0 THEN 1 ELSE 0

\* C37: a ReActAgent.run that has returned has added to the history its user
\* message and one assistant message, the answer it returned, and the system
\* message at index 0 when none was there, whatever the number of its turns
\* and tool invocations; while the run goes on, after its first model call,
\* the history holds of it the user message only (and that system message).
C37_ReactRunAddsUserAndAnswer ==
    (kind = "react" /\ llmCalls >= 1) =>
        /\ history[1].role = "system"
        /\ history[entry_len + ReactInserted + 1].role = "user"
        /\ history[entry_len + ReactInserted + 1].content \in UserInputs
        /\ status = "running" => Len(history) = entry_len + ReactInserted + 1
        /\ status = "returned" =>
              /\ Len(history) = entry_len + ReactInserted + 2
              /\ history[Len(history)].role = "assistant"
              /\ history[Len(history)].content = result
        /\ \A i \in (entry_len + 1)..Len(history) : history[i].role # "tool"

\* C37 witness: a run of two turns, the first with a tool invocation, has
\* returned and the history holds three messages
C37_Witness ==
    /\ kind = "react" /\ status = "returned" /\ llmCalls = 2 /\ Len(toolLog) = 1
    /\ entry_len = 0 /\ Len(history) = 3
    /\ history[3] = AssistantMsg(<<"X">>, <<>>)

\* the position of the first call of the last reply that names a tool that
\* is not registered
FirstUnknownCall ==
    MinOf({k \in 1..Len(assistant_msg.tool_calls) :
              assistant_msg.tool_calls[k].name[1] \notin ToolNames})

\* C38: when a run of OpenAIFunctionAgent has failed with ToolNotFoundError
\* on the call at position j of the turn's request list, the calls before j
\* have been invoked, in order, and the history ends with the assistant
\* message of the turn followed by their j-1 tool messages; the calls behind
\* j have not been invoked and have no tool message.
C38_CallsBeforeUnknownToolAnswered ==
    (kind = "function" /\ status = "raised" /\ error = "ToolNotFoundError") =>
        LET j == FirstUnknownCall
            n == Len(history)
            l == Len(toolLog)
        IN  /\ tcIdx = j
            /\ n >= j /\ l >= j - 1
            /\ history[n - (j - 1)] = assistant_msg
            /\ \A i \in 1..(j - 1) :
                  /\ history[n - (j - 1) + i].role = "tool"
                  /\ history[n - (j - 1) + i].tool_call_id = assistant_msg.tool_calls[i].id
                  /\ toolLog[l - (j - 1) + i].name = assistant_msg.tool_calls[i].name
            /\ llmCalls = turn_idx

\* C38 witness: the reply requested add, nosuch, add; the run failed at the
\* second call with the result of the first in the history and one invocation
C38_Witness ==
    /\ kind = "function" /\ status = "raised" /\ error = "ToolNotFoundError"
    /\ Len(assistant_msg.tool_calls) = 3 /\ FirstUnknownCall = 2
    /\ Len(toolLog) = 1 /\ llmCalls = 1
    /\ history[Len(history)].role = "tool"
    /\ history[Len(history)].tool_call_id = "c5"

====
